---- MODULE Spec2Model ----
(***************************************************************************)
(* A model of the CIVIC-REZO backend: the vote ledger (guest votes,        *)
(* authenticated toggle, simplified toggle, the creator's vote written by  *)
(* complaint submission), the workflow stage reconciler, the numeric       *)
(* clamp of the complaint insert and the priority fusion.                  *)
(*                                                                         *)
(* Every route handler is an async function: it runs alone between two     *)
(* awaits and may be interleaved with other requests at each await.  A     *)
(* request is therefore a small process whose pc names the await it is     *)
(* about to perform; one action models the database call at that await     *)
(* together with the synchronous code that follows it up to the next one.  *)
(***************************************************************************)
EXTENDS Integers, Sequences, FiniteSets, TLC

(***************************************************************************)
(* Bounds of the model.                                                    *)
(***************************************************************************)
\* Number of vote/submit requests issued in one behaviour.
MaxRequests == 3

\* Request slots: requests that may be in flight at the same time.
Slots == {"r1", "r2"}

\* Complaint ids.  "c1" exists from the start, "c2" is created by submit.
Complaints == {"c1", "c2"}

\* The complaint the vote requests name.
VoteTargets == {"c1"}

\* Authenticated user ids (req.user.id).
Users == {"u1"}

\* Device ids a guest client may send; NoDevice is a request without deviceId.
NoDevice == [name |-> "none", n |-> 0]
Devices == {[name |-> "d1", n |-> 0], [name |-> "d2", n |-> 0]}

VARIABLES
    complaints,       \* ids of the rows of table complaints
    vote_count,       \* complaints.vote_count, per complaint id
    complaint_votes,  \* rows of table complaint_votes
    nextId,           \* next primary key of complaint_votes / next one-shot id
    uniqueVotes,      \* whether the table has UNIQUE(complaint_id, user_id)
    dbFaults,         \* whether an update of complaints may come back with an error
    req,              \* the requests in flight, per slot
    started,          \* number of requests issued so far
    serial,           \* TRUE when the clients issue one request at a time
    hist,             \* the answered requests of a serial run, in order
    status,           \* complaints.status, per complaint id
    complaint_updates,\* rows of table complaint_updates, in insertion order
    complaint_workflow,\* the row of table complaint_workflow, per complaint id
    areq,             \* the admin requests in flight, per slot
    astarted,         \* number of admin requests issued so far
    call,             \* the scoring computation in progress
    stored,           \* scoring fields of the complaint row last inserted
    emo,              \* the call of analyzeEmotion in progress
    conversationSessions, \* the chatbot's Map of sessions, in insertion order
    chat,             \* the chatbot: its knowledge matcher and its last answer
    sub,              \* the submission whose row is being built
    db                \* the tables as the submission writes them

voteVars ==
    <<complaints, vote_count, complaint_votes, nextId, uniqueVotes, dbFaults, req,
      started, serial, hist>>

\* Columns and tables written both by submit and by the admin routes.
sharedVars == <<status, complaint_updates>>

adminVars == <<complaint_workflow, areq, astarted>>

calcVars == <<call, stored>>

emoVars == <<emo>>

chatVars == <<conversationSessions, chat>>

intakeVars == <<sub, db>>

\* The services next to the ledger: emotion analysis, chatbot, intake.
serviceVars == <<emoVars, chatVars, intakeVars>>

vars == <<voteVars, sharedVars, adminVars, calcVars, serviceVars>>

(***************************************************************************)
(* Voter identities as stored in complaint_votes.user_id.                  *)
(***************************************************************************)
\* user_id: null -- the first guest handler stores no voter at all.
NullUser == [tag |-> "null", name |-> "", n |-> 0]

\* req.user.id of an authenticated user.
UserId(u) == [tag |-> "user", name |-> u, n |-> 0]

\* generateGuestUUID(deviceId): the md5 of 'guest_' + deviceId laid out as a
\* UUID.  It reads nothing but deviceId; the digest is kept abstract as a
\* value tagged "guest" that is determined by the device id.
generateGuestUUID(d) == [tag |-> "guest", name |-> d.name, n |-> d.n]

\* `temp_${Date.now()}_${Math.random()...}`: a device id made up for one request.
TempDevice(k) == [name |-> "temp", n |-> k]

\* The person behind a device id.
DeviceVoter(d) == [tag |-> "device", name |-> d.name, n |-> d.n]

\* A row of complaint_votes.  voter is not a column: it records who sent the
\* request that inserted the row.
VoteRow(i, c, u, t, rc, voter) ==
    [id |-> i, complaint_id |-> c, user_id |-> u, vote_type |-> t, vote_count |-> rc,
     voter |-> voter]

\* data: null of a select, and the response of a request not yet answered.
NoRow == VoteRow(0, "", NullUser, "none", -1, NullUser)
NoResp == [code |-> 0, voteCount |-> 0, action |-> "none"]

\* Rows selected by .eq('complaint_id', c).eq('user_id', u).
RowsOf(c, u) == {v \in complaint_votes : v.complaint_id = c /\ v.user_id = u}

\* .single(): the row when exactly one matches; with none or several it
\* answers error PGRST116 and data null.
Single(rows) == IF Cardinality(rows) = 1 THEN CHOOSE v \in rows : TRUE ELSE NoRow

\* An insert is refused by the unique constraint when a row with the same
\* (complaint_id, user_id) exists; SQL NULLs never conflict.
InsertConflicts(c, u) == uniqueVotes /\ u # NullUser /\ RowsOf(c, u) # {}

Upvotes(c) == {v \in complaint_votes : v.complaint_id = c /\ v.vote_type = "upvote"}

IsDone(r) == req[r].pc = "done"
Busy(r) == req[r].pc \notin {"idle", "done"}

\* res.status(code).json(...): the request is answered and its locals die.
Finish(r, code, vc, action) ==
    /\ req' = [req EXCEPT ![r].pc = "done", ![r].snap = 0, ![r].existing = NoRow,
                          ![r].delta = 0, ![r].before = 0,
                          ![r].resp = [code |-> code, voteCount |-> vc, action |-> action]]
    /\ hist' = IF serial
                 THEN Append(hist, [kind |-> req[r].kind, who |-> req[r].who,
                                    cid |-> req[r].cid, code |-> code, voteCount |-> vc,
                                    before |-> req[r].before,
                                    after |-> vote_count[req[r].cid]])
                 ELSE hist

(***************************************************************************)
(* A client issues a request.                                              *)
(***************************************************************************)
NewReq(kind, c, who, first) ==
    [pc |-> first, kind |-> kind, cid |-> c, who |-> who,
     before |-> IF serial THEN vote_count[c] ELSE 0,
     snap |-> 0, existing |-> NoRow, delta |-> 0, updateError |-> FALSE,
     resp |-> NoResp]

\* A slot is free when its request was answered.  Free slots are taken in
\* order, and a serial client waits for the answer before its next request.
CanStart(r) ==
    /\ req[r].pc \in {"idle", "done"}
    /\ started < MaxRequests
    /\ r = "r2" => Busy("r1")
    /\ serial => \A q \in Slots : ~Busy(q)

\* A slot no request has used yet.
IdleReq ==
    [pc |-> "idle", kind |-> "none", cid |-> "c1", who |-> NoDevice, before |-> 0,
     snap |-> 0, existing |-> NoRow, delta |-> 0, updateError |-> FALSE,
     resp |-> NoResp]

StartVote(r) ==
    /\ CanStart(r)
    /\ \E c \in VoteTargets, u \in Users :
          req' = [req EXCEPT ![r] = NewReq("vote", c, UserId(u), "v_complaint")]
    /\ started' = started + 1
    /\ UNCHANGED <<complaints, vote_count, complaint_votes, nextId, uniqueVotes, dbFaults, serial, hist,
                   sharedVars, adminVars, calcVars, serviceVars>>

StartSimplified(r) ==
    /\ CanStart(r)
    /\ \E c \in VoteTargets, u \in Users :
          req' = [req EXCEPT ![r] = NewReq("simplified", c, UserId(u), "s_complaint")]
    /\ started' = started + 1
    /\ UNCHANGED <<complaints, vote_count, complaint_votes, nextId, uniqueVotes, dbFaults, serial, hist,
                   sharedVars, adminVars, calcVars, serviceVars>>

\* POST /api/guest-votes is registered twice on the same router.  Express
\* hands a request to the first registration, which answers it without
\* calling next(); the second registration is the device-tracking toggle.
\* Both handlers are modelled, as "guestA" (first) and "guestB" (second).
StartGuestA(r) ==
    /\ CanStart(r)
    /\ \E c \in VoteTargets, d \in Devices :
          req' = [req EXCEPT ![r] = NewReq("guestA", c, d, "ga_complaint")]
    /\ started' = started + 1
    /\ UNCHANGED <<complaints, vote_count, complaint_votes, nextId, uniqueVotes, dbFaults, serial, hist,
                   sharedVars, adminVars, calcVars, serviceVars>>

StartGuestB(r) ==
    /\ CanStart(r)
    /\ \E c \in VoteTargets, d \in Devices \cup {NoDevice} :
          req' = [req EXCEPT ![r] = NewReq("guestB", c, d, "gb_complaint")]
    /\ started' = started + 1
    /\ UNCHANGED <<complaints, vote_count, complaint_votes, nextId, uniqueVotes, dbFaults, serial, hist,
                   sharedVars, adminVars, calcVars, serviceVars>>

StartSubmit(r) ==
    /\ CanStart(r)
    /\ \E c \in Complaints \ complaints, u \in Users :
          /\ \A q \in Slots : ~(req[q].pc \notin {"idle", "done"} /\ req[q].kind = "submit" /\ req[q].cid = c)
          /\ req' = [req EXCEPT ![r] = NewReq("submit", c, UserId(u), "sub_insert")]
    /\ started' = started + 1
    /\ UNCHANGED <<complaints, vote_count, complaint_votes, nextId, uniqueVotes, dbFaults, serial, hist,
                   sharedVars, adminVars, calcVars, serviceVars>>

(***************************************************************************)
(* The first step of every vote handler: select the complaint row, answer  *)
(* 404 when there is none, else keep the row that was read.                *)
(***************************************************************************)
ReadComplaint(r, kind, next) ==
    /\ req[r].pc = kind
    /\ IF req[r].cid \in complaints
         THEN /\ req' = [req EXCEPT ![r].pc = next, ![r].snap = vote_count[req[r].cid]]
              /\ UNCHANGED hist
         ELSE Finish(r, 404, 0, "none")
    /\ UNCHANGED <<complaints, vote_count, complaint_votes, nextId, uniqueVotes, dbFaults, started, serial,
                   sharedVars, adminVars, calcVars, serviceVars>>

\* The lookup of the voter's row with .single().
Lookup(r, at, next, u) ==
    /\ req[r].pc = at
    /\ req' = [req EXCEPT ![r].pc = next, ![r].existing = Single(RowsOf(req[r].cid, u))]
    /\ UNCHANGED hist
    /\ UNCHANGED <<complaints, vote_count, complaint_votes, nextId, uniqueVotes, dbFaults, started, serial,
                   sharedVars, adminVars, calcVars, serviceVars>>

\* The last read of complaints.vote_count; countError ? 0 : (vote_count || 0).
ReadCount(r, at, action) ==
    /\ req[r].pc = at
    /\ IF req[r].cid \in complaints
         THEN Finish(r, 200, vote_count[req[r].cid], action)
         ELSE Finish(r, 200, 0, action)
    /\ UNCHANGED <<complaints, vote_count, complaint_votes, nextId, uniqueVotes, dbFaults, started, serial,
                   sharedVars, adminVars, calcVars, serviceVars>>

(***************************************************************************)
(* POST /api/complaints/vote: the authenticated toggle.                    *)
(***************************************************************************)
VoteReadComplaint(r) == ReadComplaint(r, "v_complaint", "v_lookup")

VoteLookup(r) == Lookup(r, "v_lookup", "v_mutate", req[r].who)

VoteMutate(r) ==
    LET c == req[r].cid
        u == req[r].who
        e == req[r].existing
    IN
    /\ req[r].pc = "v_mutate"
    /\ IF e = NoRow
         THEN IF InsertConflicts(c, u)
                THEN /\ Finish(r, 500, 0, "none")
                     /\ UNCHANGED <<complaint_votes, nextId>>
                ELSE /\ complaint_votes' =
                            complaint_votes \cup {VoteRow(nextId, c, u, "upvote", -1, u)}
                     /\ nextId' = nextId + 1
                     /\ req' = [req EXCEPT ![r].pc = "v_count", ![r].delta = 1]
                     /\ UNCHANGED hist
         ELSE IF e.vote_type = "upvote"
                THEN /\ complaint_votes' = complaint_votes \ RowsOf(c, u)
                     /\ req' = [req EXCEPT ![r].pc = "v_count", ![r].delta = -1]
                     /\ UNCHANGED hist
                     /\ UNCHANGED nextId
                ELSE /\ complaint_votes' =
                            (complaint_votes \ RowsOf(c, u)) \cup
                            {[v EXCEPT !.vote_type = "upvote"] : v \in RowsOf(c, u)}
                     \* updatedVote[0] is undefined when no row matched:
                     \* result.action = 'voted' throws and the catch answers 500
                     /\ IF RowsOf(c, u) = {}
                          THEN Finish(r, 500, 0, "none")
                          ELSE /\ req' = [req EXCEPT ![r].pc = "v_count", ![r].delta = 1]
                               /\ UNCHANGED hist
                     /\ UNCHANGED nextId
    /\ UNCHANGED <<complaints, vote_count, uniqueVotes, dbFaults, started, serial,
                   sharedVars, adminVars, calcVars, serviceVars>>

VoteReadCount(r) ==
    ReadCount(r, "v_count", IF req[r].delta = 1 THEN "voted" ELSE "unvoted")

(***************************************************************************)
(* POST /api/simplified-votes: upvote <-> downvote on the voter's row; the *)
(* handler never writes complaints.vote_count.                             *)
(***************************************************************************)
SimplifiedReadComplaint(r) == ReadComplaint(r, "s_complaint", "s_lookup")

SimplifiedLookup(r) == Lookup(r, "s_lookup", "s_mutate", req[r].who)

SimplifiedMutate(r) ==
    LET c == req[r].cid
        u == req[r].who
        e == req[r].existing
    IN
    /\ req[r].pc = "s_mutate"
    /\ IF e = NoRow
         THEN IF InsertConflicts(c, u)
                THEN /\ Finish(r, 500, 0, "none")
                     /\ UNCHANGED <<complaint_votes, nextId>>
                ELSE /\ complaint_votes' =
                            complaint_votes \cup {VoteRow(nextId, c, u, "upvote", 1, u)}
                     /\ nextId' = nextId + 1
                     /\ req' = [req EXCEPT ![r].pc = "s_count", ![r].delta = 1]
                     /\ UNCHANGED hist
         ELSE IF e.vote_type = "upvote" /\ e.vote_count = 1
                THEN /\ complaint_votes' =
                            (complaint_votes \ RowsOf(c, u)) \cup
                            {[v EXCEPT !.vote_type = "downvote", !.vote_count = 0] :
                                 v \in RowsOf(c, u)}
                     /\ req' = [req EXCEPT ![r].pc = "s_count", ![r].delta = -1]
                     /\ UNCHANGED hist
                     /\ UNCHANGED nextId
                ELSE /\ complaint_votes' =
                            (complaint_votes \ RowsOf(c, u)) \cup
                            {[v EXCEPT !.vote_type = "upvote", !.vote_count = 1] :
                                 v \in RowsOf(c, u)}
                     /\ req' = [req EXCEPT ![r].pc = "s_count", ![r].delta = 1]
                     /\ UNCHANGED hist
                     /\ UNCHANGED nextId
    /\ UNCHANGED <<complaints, vote_count, uniqueVotes, dbFaults, started, serial,
                   sharedVars, adminVars, calcVars, serviceVars>>

\* message: existingVote ? 'Vote removed successfully' : 'Vote added successfully'
SimplifiedReadCount(r) ==
    ReadCount(r, "s_count", IF req[r].existing = NoRow THEN "voted" ELSE "unvoted")

(***************************************************************************)
(* POST /api/guest-votes, first registration: insert a row with user_id    *)
(* null, then write vote_count from the value read at the start.           *)
(***************************************************************************)
GuestAReadComplaint(r) == ReadComplaint(r, "ga_complaint", "ga_insert")

GuestAInsert(r) ==
    /\ req[r].pc = "ga_insert"
    /\ complaint_votes' =
           complaint_votes \cup
           {VoteRow(nextId, req[r].cid, NullUser, "upvote", -1, DeviceVoter(req[r].who))}
    /\ nextId' = nextId + 1
    /\ req' = [req EXCEPT ![r].pc = "ga_update", ![r].delta = 1]
    /\ UNCHANGED hist
    /\ UNCHANGED <<complaints, vote_count, uniqueVotes, dbFaults, started, serial,
                   sharedVars, adminVars, calcVars, serviceVars>>

\* vote_count: (complaint.vote_count || 0) + 1
GuestANewCount(snap) == snap + 1

\* The outcomes of an update of complaints: { error } is null, or set when
\* the store may fail.
UpdateOutcomes == IF dbFaults THEN {"ok", "error"} ELSE {"ok"}

\* A handler that answered the update error with 500.
UpdateErrorAnswers500(r, next) ==
    req' = [req EXCEPT ![r].pc = "done", ![r].updateError = TRUE,
                       ![r].resp = [code |-> 500, voteCount |-> 0, action |-> "none"]]

\* if (updateError) { console.error(...) }: the handler goes on to `next`.
UpdateErrorLogged(r, next) ==
    req' = [req EXCEPT ![r].pc = next, ![r].updateError = TRUE]

GuestAUpdateCount(r) ==
    /\ req[r].pc = "ga_update"
    /\ \E outcome \in UpdateOutcomes :
          IF outcome = "error"
            THEN /\ UpdateErrorLogged(r, "ga_count")
                 /\ UNCHANGED vote_count
            ELSE /\ vote_count' =
                        IF req[r].cid \in complaints
                          THEN [vote_count EXCEPT ![req[r].cid] = GuestANewCount(req[r].snap)]
                          ELSE vote_count
                 /\ req' = [req EXCEPT ![r].pc = "ga_count"]
    /\ UNCHANGED hist
    /\ UNCHANGED <<complaints, complaint_votes, nextId, uniqueVotes, dbFaults, started, serial,
                   sharedVars, adminVars, calcVars, serviceVars>>

\* finalVoteCount = fetchError ? (complaint.vote_count || 0) + 1
\*                             : (updatedComplaint.vote_count || 0)
GuestAReadCount(r) ==
    /\ req[r].pc = "ga_count"
    /\ IF req[r].cid \in complaints
         THEN Finish(r, 200, vote_count[req[r].cid], "added")
         ELSE Finish(r, 200, req[r].snap + 1, "added")
    /\ UNCHANGED <<complaints, vote_count, complaint_votes, nextId, uniqueVotes, dbFaults,
                   started, serial, sharedVars, adminVars, calcVars, serviceVars>>

(***************************************************************************)
(* POST /api/guest-votes, second registration: the device-tracking toggle. *)
(***************************************************************************)
GuestBReadComplaint(r) ==
    ReadComplaint(r, "gb_complaint",
                  IF req[r].who = NoDevice THEN "gb_mutate" ELSE "gb_lookup")

GuestBLookup(r) == Lookup(r, "gb_lookup", "gb_mutate", generateGuestUUID(req[r].who))

\* newVoteType and voteCountChange of the toggle branch.
NewVoteType(t) == IF t = "upvote" THEN "downvote" ELSE "upvote"
VoteCountChange(t) == IF NewVoteType(t) = "upvote" THEN 1 ELSE -1

GuestBMutate(r) ==
    LET c == req[r].cid
        e == req[r].existing
        device == IF req[r].who = NoDevice THEN TempDevice(nextId) ELSE req[r].who
        guestUserId == generateGuestUUID(device)
    IN
    /\ req[r].pc = "gb_mutate"
    /\ IF e = NoRow
         THEN IF InsertConflicts(c, guestUserId)
                THEN /\ Finish(r, 500, 0, "none")
                     /\ UNCHANGED <<complaint_votes, nextId>>
                ELSE /\ complaint_votes' =
                            complaint_votes \cup
                            {VoteRow(nextId, c, guestUserId, "upvote", -1, DeviceVoter(device))}
                     /\ nextId' = nextId + 1
                     /\ req' = [req EXCEPT ![r].pc = "gb_update", ![r].delta = 1]
                     /\ UNCHANGED hist
         ELSE /\ complaint_votes' =
                     {IF v.id = e.id THEN [v EXCEPT !.vote_type = NewVoteType(e.vote_type)]
                                     ELSE v : v \in complaint_votes}
              /\ req' = [req EXCEPT ![r].pc = "gb_update",
                                     ![r].delta = VoteCountChange(e.vote_type)]
              /\ UNCHANGED hist
              /\ UNCHANGED nextId
    /\ UNCHANGED <<complaints, vote_count, uniqueVotes, dbFaults, started, serial,
                   sharedVars, adminVars, calcVars, serviceVars>>

Max(a, b) == IF a >= b THEN a ELSE b

\* The toggle's count without Math.max(0, ...).
GuestBNewCountUnclamped(snap, isNew, change) ==
    IF isNew THEN snap + 1 ELSE snap + change

\* new vote: complaint.vote_count + 1
\* toggle:   Math.max(0, complaint.vote_count + voteCountChange)
GuestBNewCount(snap, isNew, change) ==
    IF isNew THEN snap + 1 ELSE Max(0, snap + change)

GuestBUpdateCount(r) ==
    /\ req[r].pc = "gb_update"
    /\ \E outcome \in UpdateOutcomes :
          IF outcome = "error"
            THEN /\ UpdateErrorLogged(r, "gb_count")
                 /\ UNCHANGED vote_count
            ELSE /\ vote_count' =
                        IF req[r].cid \in complaints
                          THEN [vote_count EXCEPT ![req[r].cid] =
                                   GuestBNewCount(req[r].snap, req[r].existing = NoRow,
                                                  req[r].delta)]
                          ELSE vote_count
                 /\ req' = [req EXCEPT ![r].pc = "gb_count"]
    /\ UNCHANGED hist
    /\ UNCHANGED <<complaints, complaint_votes, nextId, uniqueVotes, dbFaults, started, serial,
                   sharedVars, adminVars, calcVars, serviceVars>>

\* voteCount: complaint.vote_count + (added ? 1 : removed ? -1 : 0); the
\* vote_count selected at this await is not used in the response.
GuestBReadCount(r) ==
    /\ req[r].pc = "gb_count"
    /\ Finish(r, 200, req[r].snap + req[r].delta,
              IF req[r].delta = 1 THEN "added" ELSE "removed")
    /\ UNCHANGED <<complaints, vote_count, complaint_votes, nextId, uniqueVotes, dbFaults, started, serial,
                   sharedVars, adminVars, calcVars, serviceVars>>

(***************************************************************************)
(* POST /api/complaints/submit, as far as the vote ledger sees it: the     *)
(* complaint row is inserted (vote_count is not among the inserted fields  *)
(* and takes the column default), the creator's rows are deleted and one   *)
(* upvote row of the creator is inserted.                                  *)
(***************************************************************************)
DefaultVoteCount == 0

\* A row of complaint_updates.
UpdateRow(c, old, new, note) ==
    [complaint_id |-> c, old_status |-> old, new_status |-> new, note |-> note]

\* status: 'pending' is among the inserted fields.
SubmitInsert(r) ==
    /\ req[r].pc = "sub_insert"
    /\ complaints' = complaints \cup {req[r].cid}
    /\ vote_count' = [vote_count EXCEPT ![req[r].cid] = DefaultVoteCount]
    /\ status' = [status EXCEPT ![req[r].cid] = "pending"]
    /\ req' = [req EXCEPT ![r].pc = "sub_update"]
    /\ UNCHANGED hist
    /\ UNCHANGED <<complaint_votes, nextId, uniqueVotes, dbFaults, started, serial,
                   complaint_updates, adminVars, calcVars, serviceVars>>

\* The 'Complaint submitted' entry: old_status null, new_status 'pending'.
SubmitInsertUpdate(r) ==
    /\ req[r].pc = "sub_update"
    /\ complaint_updates' =
           Append(complaint_updates, UpdateRow(req[r].cid, "null", "pending", "submitted"))
    /\ req' = [req EXCEPT ![r].pc = "sub_delvote"]
    /\ UNCHANGED hist
    /\ UNCHANGED <<complaints, vote_count, complaint_votes, nextId, uniqueVotes, dbFaults,
                   started, serial, status, adminVars, calcVars, serviceVars>>

SubmitDeleteVote(r) ==
    /\ req[r].pc = "sub_delvote"
    /\ complaint_votes' = complaint_votes \ RowsOf(req[r].cid, req[r].who)
    /\ req' = [req EXCEPT ![r].pc = "sub_vote"]
    /\ UNCHANGED hist
    /\ UNCHANGED <<complaints, vote_count, nextId, uniqueVotes, dbFaults, started, serial,
                   sharedVars, adminVars, calcVars, serviceVars>>

\* voteError is logged only; the submission is answered with success.
SubmitInsertVote(r) ==
    /\ req[r].pc = "sub_vote"
    /\ IF InsertConflicts(req[r].cid, req[r].who)
         THEN UNCHANGED <<complaint_votes, nextId>>
         ELSE /\ complaint_votes' =
                     complaint_votes \cup
                     {VoteRow(nextId, req[r].cid, req[r].who, "upvote", -1, req[r].who)}
              /\ nextId' = nextId + 1
    /\ Finish(r, 200, 0, "submitted")
    /\ UNCHANGED <<complaints, vote_count, uniqueVotes, dbFaults, started, serial,
                   sharedVars, adminVars, calcVars, serviceVars>>

(***************************************************************************)
(* The admin routes on the workflow of a complaint.  complaint_workflow    *)
(* holds one row per complaint with the status of the three stages;        *)
(* complaints.status is written by the stage update, by stage/next and by  *)
(* the status override.                                                    *)
(***************************************************************************)
\* Number of admin requests issued in one behaviour.
MaxAdminRequests == 4
MaxRacingRequests == 3

AdminSlots == {"a1", "a2"}

\* The complaint ids the admin requests name; "c2" is a complaint that does
\* not exist while the admin works.
AdminTargets == {"c1", "c2"}

StageIds == {1, 2, 3}
StageStatuses == {"pending", "in_progress", "completed", "cancelled"}
ComplaintStatuses == {"pending", "in_progress", "resolved", "cancelled"}

\* :stageId and status as a client may send them, valid or not.
StageIdParams == StageIds \cup {4}
StatusParams == StageStatuses \cup {"bogus"}

WorkflowRow(s1, s2, s3) ==
    [step_1_status |-> s1, step_2_status |-> s2, step_3_status |-> s3]

\* No row of complaint_workflow for the complaint.
NoWorkflow == WorkflowRow("none", "none", "none")

\* The row the details endpoint inserts.
DefaultWorkflow == WorkflowRow("pending", "pending", "pending")

\* workflow[`step_${stageId}_status`]
StepStatus(w, k) ==
    IF k = 1 THEN w.step_1_status
    ELSE IF k = 2 THEN w.step_2_status
    ELSE w.step_3_status

\* An update that also puts the stages after stage k back to pending.
UpdateStepAndReset(w, k, s) ==
    [step_1_status |-> IF k = 1 THEN s ELSE w.step_1_status,
     step_2_status |-> IF k = 2 THEN s ELSE IF k < 2 THEN "pending" ELSE w.step_2_status,
     step_3_status |-> IF k = 3 THEN s ELSE "pending"]

\* updateData: only the status column of the stage named by stageId.
UpdateStep(w, k, s) ==
    IF k = 1 THEN [w EXCEPT !.step_1_status = s]
    ELSE IF k = 2 THEN [w EXCEPT !.step_2_status = s]
    ELSE [w EXCEPT !.step_3_status = s]

allStagesCompleted(w) ==
    /\ w.step_1_status = "completed"
    /\ w.step_2_status = "completed"
    /\ w.step_3_status = "completed"

anyStageInProgress(w) ==
    \/ w.step_1_status = "in_progress"
    \/ w.step_2_status = "in_progress"
    \/ w.step_3_status = "in_progress"

\* newComplaintStatus of the stage update; "null" leaves complaints.status
\* as it is.
newComplaintStatus(updatedWorkflow, actualStatus) ==
    IF allStagesCompleted(updatedWorkflow) THEN "resolved"
    ELSE IF anyStageInProgress(updatedWorkflow) THEN "in_progress"
    ELSE IF actualStatus = "cancelled" THEN "cancelled"
    ELSE "null"

IdleAdmin ==
    [pc |-> "idle", kind |-> "none", cid |-> "c1", stageId |-> 0, status |-> "none",
     workflow |-> NoWorkflow, before |-> "none", newStatus |-> "null",
     complaintIds |-> {}, code |-> 0]

NewAdmin(kind, c, k, s, first) ==
    [pc |-> first, kind |-> kind, cid |-> c, stageId |-> k, status |-> s,
     workflow |-> NoWorkflow, before |-> "none", newStatus |-> "null",
     complaintIds |-> {}, code |-> 0]

AdminBusy(a) == areq[a].pc \notin {"idle", "done"}

CanStartAdmin(a) ==
    /\ areq[a].pc \in {"idle", "done"}
    /\ astarted < (IF serial THEN MaxAdminRequests ELSE MaxRacingRequests)
    /\ a = "a2" => AdminBusy("a1")
    /\ serial => \A q \in AdminSlots : ~AdminBusy(q)

\* res.status(code).json(...): the request is answered and its locals die.
AdminFinish(a, code) ==
    areq' = [areq EXCEPT ![a] = [IdleAdmin EXCEPT !.pc = "done", !.kind = areq[a].kind,
                                                  !.code = code]]

(***************************************************************************)
(* PUT /complaints/:complaintId/stage/:stageId                             *)
(***************************************************************************)
\* A validation that looks at the stage id only.
AnyStatusAccepted(k, s) == k \in StageIds

\* ['1', '2', '3'].includes(stageId) and actualStatus is one of pending,
\* in_progress, completed, cancelled.
ValidStageUpdate(k, s) == k \in StageIds /\ s \in StageStatuses

\* The parameters are validated before the first await: a bad stage id or a
\* bad status is answered 400 at once.
StartStageUpdate(a) ==
    /\ CanStartAdmin(a)
    /\ \E c \in AdminTargets, k \in StageIdParams, s \in StatusParams :
          areq' = [areq EXCEPT ![a] =
                      IF ValidStageUpdate(k, s)
                        THEN NewAdmin("stage", c, k, s, "su_workflow")
                        ELSE [IdleAdmin EXCEPT !.pc = "done", !.kind = "stage",
                                               !.code = 400]]
    /\ astarted' = astarted + 1
    /\ UNCHANGED <<complaint_workflow, voteVars, sharedVars, calcVars, serviceVars>>

\* Get current workflow; 404 when .single() finds no row.
StageReadWorkflow(a) ==
    /\ areq[a].pc = "su_workflow"
    /\ IF complaint_workflow[areq[a].cid] = NoWorkflow
         THEN AdminFinish(a, 404)
         ELSE areq' = [areq EXCEPT ![a].pc = "su_update",
                                    ![a].workflow = complaint_workflow[areq[a].cid]]
    /\ UNCHANGED <<complaint_workflow, astarted, voteVars, sharedVars, calcVars, serviceVars>>

\* Update workflow in database, then derive newComplaintStatus from the row
\* the update returned.  before is not a local of the handler: it records the
\* stage status the update replaced.
StageUpdateWorkflow(a) ==
    LET c == areq[a].cid
        updatedWorkflow == UpdateStep(complaint_workflow[c], areq[a].stageId, areq[a].status)
        derived == newComplaintStatus(updatedWorkflow, areq[a].status)
    IN
    /\ areq[a].pc = "su_update"
    /\ IF complaint_workflow[c] = NoWorkflow
         THEN /\ AdminFinish(a, 400)
              /\ UNCHANGED complaint_workflow
         ELSE /\ complaint_workflow' = [complaint_workflow EXCEPT ![c] = updatedWorkflow]
              /\ areq' = [areq EXCEPT ![a].pc = IF derived = "null" THEN "su_log"
                                                                     ELSE "su_status",
                                       ![a].newStatus = derived,
                                       ![a].before =
                                           StepStatus(complaint_workflow[c], areq[a].stageId)]
    /\ UNCHANGED <<astarted, voteVars, sharedVars, calcVars, serviceVars>>

\* Update complaint status if needed.
StageUpdateStatus(a) ==
    /\ areq[a].pc = "su_status"
    /\ status' = IF areq[a].cid \in complaints
                   THEN [status EXCEPT ![areq[a].cid] = areq[a].newStatus]
                   ELSE status
    /\ areq' = [areq EXCEPT ![a].pc = "su_log"]
    /\ UNCHANGED <<complaint_updates, complaint_workflow, astarted, voteVars, calcVars, serviceVars>>

\* Log the update: old_status is the stage status read at the first await.
StageInsertUpdate(a) ==
    /\ areq[a].pc = "su_log"
    /\ complaint_updates' =
           Append(complaint_updates,
                  UpdateRow(areq[a].cid, StepStatus(areq[a].workflow, areq[a].stageId),
                            areq[a].status, "stage"))
    /\ AdminFinish(a, 200)
    /\ UNCHANGED <<status, complaint_workflow, astarted, voteVars, calcVars, serviceVars>>

(***************************************************************************)
(* POST /complaints/:complaintId/stage/next                                *)
(***************************************************************************)
StartNextStage(a) ==
    /\ CanStartAdmin(a)
    /\ \E c \in AdminTargets :
          areq' = [areq EXCEPT ![a] = NewAdmin("next", c, 0, "none", "ns_complaint")]
    /\ astarted' = astarted + 1
    /\ UNCHANGED <<complaint_workflow, voteVars, sharedVars, calcVars, serviceVars>>

\* pending goes on to the update; in_progress and every other status are
\* answered without a write.
NextStageRead(a) ==
    /\ areq[a].pc = "ns_complaint"
    /\ IF areq[a].cid \notin complaints
         THEN AdminFinish(a, 404)
         ELSE IF status[areq[a].cid] = "pending"
                THEN areq' = [areq EXCEPT ![a].pc = "ns_update",
                                           ![a].newStatus = "in_progress"]
                ELSE AdminFinish(a, 200)
    /\ UNCHANGED <<complaint_workflow, astarted, voteVars, sharedVars, calcVars, serviceVars>>

NextStageUpdate(a) ==
    /\ areq[a].pc = "ns_update"
    /\ IF areq[a].cid \in complaints
         THEN /\ status' = [status EXCEPT ![areq[a].cid] = areq[a].newStatus]
              /\ AdminFinish(a, 200)
         ELSE /\ UNCHANGED status
              /\ AdminFinish(a, 400)
    /\ UNCHANGED <<complaint_updates, complaint_workflow, astarted, voteVars, calcVars, serviceVars>>

(***************************************************************************)
(* PUT /complaints/:complaintId/status: the explicit status override.      *)
(***************************************************************************)
StartStatusOverride(a) ==
    /\ CanStartAdmin(a)
    /\ \E c \in AdminTargets, s \in ComplaintStatuses :
          areq' = [areq EXCEPT ![a] = NewAdmin("override", c, 0, s, "ov_update")]
    /\ astarted' = astarted + 1
    /\ UNCHANGED <<complaint_workflow, voteVars, sharedVars, calcVars, serviceVars>>

StatusOverrideUpdate(a) ==
    /\ areq[a].pc = "ov_update"
    /\ IF areq[a].cid \in complaints
         THEN /\ status' = [status EXCEPT ![areq[a].cid] = areq[a].status]
              /\ areq' = [areq EXCEPT ![a].pc = "ov_log"]
         ELSE /\ UNCHANGED status
              /\ AdminFinish(a, 400)
    /\ UNCHANGED <<complaint_updates, complaint_workflow, astarted, voteVars, calcVars, serviceVars>>

\* Log the status change: the row sets previous_value and new_value, its
\* old_status and new_status stay null.
StatusOverrideInsertUpdate(a) ==
    /\ areq[a].pc = "ov_log"
    /\ complaint_updates' =
           Append(complaint_updates, UpdateRow(areq[a].cid, "null", "null", "status_change"))
    /\ AdminFinish(a, 200)
    /\ UNCHANGED <<status, complaint_workflow, astarted, voteVars, calcVars, serviceVars>>

(***************************************************************************)
(* GET /complaints/:complaintId/details: creates the workflow row of a     *)
(* complaint that has none.                                                *)
(***************************************************************************)
StartDetails(a) ==
    /\ CanStartAdmin(a)
    /\ \E c \in AdminTargets :
          areq' = [areq EXCEPT ![a] = NewAdmin("details", c, 0, "none", "d_complaint")]
    /\ astarted' = astarted + 1
    /\ UNCHANGED <<complaint_workflow, voteVars, sharedVars, calcVars, serviceVars>>

DetailsReadComplaint(a) ==
    /\ areq[a].pc = "d_complaint"
    /\ IF areq[a].cid \in complaints
         THEN areq' = [areq EXCEPT ![a].pc = "d_workflow"]
         ELSE AdminFinish(a, 404)
    /\ UNCHANGED <<complaint_workflow, astarted, voteVars, sharedVars, calcVars, serviceVars>>

DetailsReadWorkflow(a) ==
    /\ areq[a].pc = "d_workflow"
    /\ IF complaint_workflow[areq[a].cid] = NoWorkflow
         THEN areq' = [areq EXCEPT ![a].pc = "d_create"]
         ELSE AdminFinish(a, 200)
    /\ UNCHANGED <<complaint_workflow, astarted, voteVars, sharedVars, calcVars, serviceVars>>

\* The insert of the default row.  `workflow = newWorkflow` then assigns to a
\* const binding: the TypeError is caught and the request is answered 500,
\* with the row in place.  A second row for the same complaint is refused.
DetailsCreateWorkflow(a) ==
    /\ areq[a].pc = "d_create"
    /\ complaint_workflow' =
           IF complaint_workflow[areq[a].cid] = NoWorkflow
             THEN [complaint_workflow EXCEPT ![areq[a].cid] = DefaultWorkflow]
             ELSE complaint_workflow
    /\ AdminFinish(a, 500)
    /\ UNCHANGED <<astarted, voteVars, sharedVars, calcVars, serviceVars>>

(***************************************************************************)
(* DELETE /citizens/:citizenId: the rows of the citizen's complaints in    *)
(* complaint_updates and complaint_workflow are deleted, then the          *)
(* complaints, then the user.  complaint_votes is not among the tables the *)
(* handler deletes from.                                                   *)
(***************************************************************************)
\* complaints.user_id: every complaint of the model was submitted by u1.
Owner(c) == "u1"

\* .from('complaints').select('id').eq('user_id', citizenId)
ComplaintsOf(citizenId) == {c \in complaints : Owner(c) = citizenId}

\* What the store does with the vote rows of a complaint that is deleted: the
\* foreign key of complaint_votes.complaint_id is absent, cascades, or
\* refuses the delete.
VoteForeignKeys == {"none", "cascade", "restrict"}

StartDeleteCitizen(a) ==
    /\ CanStartAdmin(a)
    /\ areq' = [areq EXCEPT ![a] = NewAdmin("delete", "c1", 0, "none", "dc_select")]
    /\ astarted' = astarted + 1
    /\ UNCHANGED <<complaint_workflow, voteVars, sharedVars, calcVars, serviceVars>>

\* userComplaints; the two deletes by complaint id are skipped when it is empty.
DeleteSelectComplaints(a) ==
    /\ areq[a].pc = "dc_select"
    /\ \E citizenId \in Users :
          areq' = [areq EXCEPT ![a].complaintIds = ComplaintsOf(citizenId),
                               ![a].pc = IF ComplaintsOf(citizenId) = {}
                                           THEN "dc_complaints" ELSE "dc_updates"]
    /\ UNCHANGED <<complaint_workflow, astarted, voteVars, sharedVars, calcVars, serviceVars>>

DeleteUpdates(a) ==
    /\ areq[a].pc = "dc_updates"
    /\ complaint_updates' =
           SelectSeq(complaint_updates,
                     LAMBDA u : u.complaint_id \notin areq[a].complaintIds)
    /\ areq' = [areq EXCEPT ![a].pc = "dc_workflow"]
    /\ UNCHANGED <<status, complaint_workflow, astarted, voteVars, calcVars, serviceVars>>

DeleteWorkflow(a) ==
    /\ areq[a].pc = "dc_workflow"
    /\ complaint_workflow' =
           [c \in Complaints |-> IF c \in areq[a].complaintIds
                                   THEN NoWorkflow ELSE complaint_workflow[c]]
    /\ areq' = [areq EXCEPT ![a].pc = "dc_complaints"]
    /\ UNCHANGED <<astarted, voteVars, sharedVars, calcVars, serviceVars>>

\* .from('complaints').delete().eq('user_id', citizenId); complaintsError is
\* answered 500.
DeleteComplaints(a) ==
    /\ areq[a].pc = "dc_complaints"
    /\ \E citizenId \in Users, fk \in VoteForeignKeys :
          LET gone == ComplaintsOf(citizenId)
              voted == {v \in complaint_votes : v.complaint_id \in gone}
          IN  IF fk = "restrict" /\ voted # {}
                THEN /\ AdminFinish(a, 500)
                     /\ UNCHANGED <<complaints, vote_count, complaint_votes, status>>
                ELSE /\ complaints' = complaints \ gone
                     /\ vote_count' = [c \in Complaints |->
                                          IF c \in gone THEN DefaultVoteCount
                                                        ELSE vote_count[c]]
                     /\ status' = [c \in Complaints |->
                                      IF c \in gone THEN "none" ELSE status[c]]
                     /\ complaint_votes' = IF fk = "cascade"
                                             THEN complaint_votes \ voted
                                             ELSE complaint_votes
                     /\ areq' = [areq EXCEPT ![a].pc = "dc_user"]
    /\ UNCHANGED <<nextId, uniqueVotes, dbFaults, req, started, serial, hist,
                   complaint_updates, complaint_workflow, astarted, calcVars, serviceVars>>

\* .from('users').delete().eq('id', citizenId), then the success answer.
DeleteUser(a) ==
    /\ areq[a].pc = "dc_user"
    /\ AdminFinish(a, 200)
    /\ UNCHANGED <<complaint_workflow, astarted, voteVars, sharedVars, calcVars, serviceVars>>

(***************************************************************************)
(* Scoring at submission: calculateComprehensivePriority, the scoring      *)
(* fields of the complaint row and filterComplaintDataForInsertion.        *)
(*                                                                         *)
(* A score is an integer number of ten-thousandths: 10000 is 1.0 and       *)
(* 99900 is 9.99.  The products by 0.6 and 0.4 and the sums are taken as   *)
(* exact.                                                                  *)
(***************************************************************************)
\* An optional number of the request body: absent, or a number.
None == [some |-> FALSE, v |-> 0]
Num(v) == [some |-> TRUE, v |-> v]

\* imageValidation.data.priorityScore as a client may send it.
ImageScores == {None, Num(0), Num(3000), Num(10000), Num(50000), Num(-5000)}

\* imageValidation.confidence and imageValidation.modelConfidence.
Confidences == {None, Num(8765), Num(99960), Num(120000), Num(-30)}

\* Raw values handed to filterComplaintDataForInsertion.
FilterInputs == {0, 4, 5000, 8750, 8765, 99900, 99949, 99960, 100000, 250000, -1, -30}

Categories == {"flooding", "pothole", "stray_animals", "unlisted"}

Levels == {"LOW", "MEDIUM", "HIGH", "CRITICAL"}

\* Scores the location service hands back (LocationPriorityService is not
\* part of the sources; its contract is a score in [0, 1] or an exception).
ServiceScores == {0, 5000, 10000}

\* x || 0
OrZero(x) == IF x.some /\ x.v # 0 THEN x.v ELSE 0

Min(a, b) == IF a <= b THEN a ELSE b

\* parseFloat(x.toFixed(2)): the nearest hundredth.  A value half way between
\* two hundredths goes where its binary representation lies, up or down.
ToFixed2(x) ==
    LET q == x \div 100
        r == x % 100
    IN  IF r < 50 THEN {q * 100}
        ELSE IF r > 50 THEN {(q + 1) * 100}
        ELSE {q * 100, (q + 1) * 100}

\* The numericFields loop for one field holding a number.
FilterNumeric(v) ==
    IF v >= 100000 THEN {99900}
    ELSE IF v < 0 THEN {0}
    ELSE ToFixed2(v)

ScoreFields == {"priority_score", "location_sensitivity_score", "emotion_score",
                "ai_confidence_score"}

ScoreRow(p, l, e, a) ==
    [priority_score |-> p, location_sensitivity_score |-> l, emotion_score |-> e,
     ai_confidence_score |-> a]

\* filterComplaintDataForInsertion on the scoring fields, every column being
\* available: the rows it may return.
filterComplaintDataForInsertion(complaintData) ==
    {ScoreRow(p, l, e, a) :
        p \in FilterNumeric(complaintData.priority_score),
        l \in FilterNumeric(complaintData.location_sensitivity_score),
        e \in FilterNumeric(complaintData.emotion_score),
        a \in FilterNumeric(complaintData.ai_confidence_score)}

\* x ? parseFloat(x.toFixed(2)) : 0.5
FixedOrHalf(x) == IF x.some /\ x.v # 0 THEN ToFixed2(x.v) ELSE {5000}

\* The scoring fields of complaintData built by submit.
SubmitScoring(analysis, confidence, modelConfidence) ==
    {ScoreRow(p, l, e, a) :
        p \in ToFixed2(analysis.totalScore),
        l \in ToFixed2(analysis.locationScore),
        e \in FixedOrHalf(confidence),
        a \in FixedOrHalf(modelConfidence)}

getFallbackPriority(category) ==
    IF category = "flooding" THEN 9000
    ELSE IF category = "pothole" THEN 6500
    ELSE IF category = "stray_animals" THEN 4000
    ELSE 5000

\* Step 4 of the two-factor path.
PriorityLevel(totalScore) ==
    IF totalScore >= 8000 THEN "CRITICAL"
    ELSE IF totalScore >= 6000 THEN "HIGH"
    ELSE IF totalScore >= 4000 THEN "MEDIUM"
    ELSE "LOW"

\* The object calculateComprehensivePriority returns; breakdown tells whether
\* the object has a breakdown property.
Analysis(path, total, level, loc, img, reasoning, breakdown) ==
    [path |-> path, totalScore |-> total, priorityLevel |-> level,
     locationScore |-> loc, imageScore |-> img, reasoning |-> reasoning,
     breakdown |-> breakdown]

NoAnalysis == Analysis("none", 0, "LOW", 0, 0, "none", FALSE)

\* What the comprehensive call of the location service returns.
ComprehensiveAnalysis(priorityScore, infrastructureScore, imageScore) ==
    Analysis("comprehensive", priorityScore, PriorityLevel(priorityScore),
             infrastructureScore, imageScore, "service", TRUE)

\* totalScore = locationScore * 0.6 + imageScore * 0.4
TwoFactorAnalysis(locationScore, imageScore) ==
    LET totalScore == (locationScore * 6 + imageScore * 4) \div 10
    IN  Analysis("two-factor", totalScore, PriorityLevel(totalScore),
                 locationScore, imageScore, "generated", TRUE)

\* The outer catch: the category default, reasoning 'Location analysis
\* unavailable.'
FallbackAnalysis(category, imageScore) ==
    LET fallbackScore == getFallbackPriority(category)
    IN  Analysis("fallback", Min(fallbackScore, 9990),
                 IF fallbackScore >= 6000 THEN "HIGH" ELSE "MEDIUM",
                 0, imageScore, "Location analysis unavailable", FALSE)

NoScores == ScoreRow(0, 0, 0, 0)

IdleCall ==
    [pc |-> "idle", fn |-> "none", image |-> None, confidence |-> None,
     modelConfidence |-> None, coords |-> FALSE, category |-> "unlisted",
     analysis |-> NoAnalysis, raw |-> NoScores, filtered |-> NoScores, code |-> 0]

\* The status calculate-priority answers with: the response is formatted from
\* priorityAnalysis.breakdown.infrastructureScore, and reading a property of
\* undefined throws into the route's catch.
CalculatePriorityResponse(analysis) == IF analysis.breakdown THEN 200 ELSE 500

\* What follows the return of calculateComprehensivePriority: submit builds
\* complaintData and filters it before the insert; calculate-priority formats
\* its answer from priorityAnalysis.breakdown, and the TypeError of reading a
\* property of undefined is answered 500 by its catch.
AfterPriority(analysis) ==
    IF call.fn = "submit"
      THEN \E raw \in SubmitScoring(analysis, call.confidence, call.modelConfidence) :
             \E filtered \in filterComplaintDataForInsertion(raw) :
                call' = [call EXCEPT !.pc = "sc_insert", !.analysis = analysis,
                                     !.raw = raw, !.filtered = filtered]
      ELSE call' = [call EXCEPT !.pc = "done", !.analysis = analysis,
                                !.code = CalculatePriorityResponse(analysis)]

\* POST /api/complaints/submit, as far as the scores see it.  locationData is
\* required, its coordinates may be falsy.
StartSubmitScoring ==
    /\ call.pc = "idle"
    /\ \E image \in ImageScores, confidence \in Confidences,
          modelConfidence \in {None, Num(8765)}, coords \in BOOLEAN,
          category \in Categories :
          call' = [IdleCall EXCEPT !.pc = IF coords THEN "p_comprehensive" ELSE "p_location",
                                   !.fn = "submit", !.image = image,
                                   !.confidence = confidence,
                                   !.modelConfidence = modelConfidence,
                                   !.coords = coords, !.category = category]
    /\ UNCHANGED <<stored, voteVars, sharedVars, adminVars,
                   serviceVars>>

\* POST /api/complaints/calculate-priority: 400 without coordinates.
StartCalculatePriority ==
    /\ call.pc = "idle"
    /\ \E image \in ImageScores, coords \in BOOLEAN, category \in Categories :
          call' = [IdleCall EXCEPT !.pc = IF coords THEN "p_comprehensive" ELSE "done",
                                   !.fn = "calculate-priority", !.image = image,
                                   !.coords = coords, !.category = category,
                                   !.code = IF coords THEN 0 ELSE 400]
    /\ UNCHANGED <<stored, voteVars, sharedVars, adminVars,
                   serviceVars>>

\* locationPriorityService.calculateComprehensivePriority: its result is
\* returned as it is; an exception falls through to the two-factor path.
ComprehensiveCall ==
    /\ call.pc = "p_comprehensive"
    /\ \/ call' = [call EXCEPT !.pc = "p_location"]
       \/ \E priorityScore \in ServiceScores, infrastructureScore \in ServiceScores :
             AfterPriority(ComprehensiveAnalysis(priorityScore, infrastructureScore,
                                                 OrZero(call.image)))
    /\ UNCHANGED <<stored, voteVars, sharedVars, adminVars,
                   serviceVars>>

\* locationPriorityService.calculateLocationPriority: an exception reaches the
\* outer catch, a result is blended with the image score.
LocationCall ==
    /\ call.pc = "p_location"
    /\ \/ AfterPriority(FallbackAnalysis(call.category, OrZero(call.image)))
       \/ \E locationScore \in ServiceScores :
             AfterPriority(TwoFactorAnalysis(locationScore, OrZero(call.image)))
    /\ UNCHANGED <<stored, voteVars, sharedVars, adminVars,
                   serviceVars>>

\* Insert into Supabase: the filtered row is stored and the submission is
\* answered with the analysis.
InsertScores ==
    /\ call.pc = "sc_insert"
    /\ stored' = stored \cup {call.filtered}
    /\ call' = [call EXCEPT !.pc = "done", !.code = 200]
    /\ UNCHANGED <<voteVars, sharedVars, adminVars,
                   serviceVars>>

\* filterComplaintDataForInsertion applied to a row holding one raw value.
ApplyFilter ==
    /\ call.pc = "idle"
    /\ \E f \in ScoreFields, x \in FilterInputs :
          LET raw == [NoScores EXCEPT ![f] = x]
          IN  \E filtered \in filterComplaintDataForInsertion(raw) :
                 call' = [IdleCall EXCEPT !.pc = "done", !.fn = "filter",
                                          !.raw = raw, !.filtered = filtered]
    /\ UNCHANGED <<stored, voteVars, sharedVars, adminVars,
                   serviceVars>>

(***************************************************************************)
(* The emotion analysis service of routes/emotion.js.  Scores are integers *)
(* in ten-thousandths, 10000 standing for 1.0.  A text is represented by   *)
(* what the service reads from it: its script, whether it is longer than   *)
(* ten characters, and how many entries of each word list occur in it.     *)
(***************************************************************************)
Emotions == {"anger", "urgency", "frustration", "concern"}

NoMatches == [e \in Emotions |-> 0]

Text(language, long, keywords, urgency, indicators, safety, topic) ==
    [isString |-> TRUE, language |-> language, long |-> long, keywords |-> keywords,
     urgencyWords |-> urgency[1], criticalHealthPhrases |-> urgency[2],
     safetyPhrases |-> urgency[3],
     concernIndicators |-> indicators[1], angerIndicators |-> indicators[2],
     criticalSafetyPhrases |-> safety[1], vulnerableGroups |-> safety[2],
     timeVulnerability |-> safety[3], topic |-> topic]

\* ''
EmptyText == Text("en", FALSE, NoMatches, <<0, 0, 0>>, <<0, 0>>, <<0, 0, 0>>, "general")

\* A value that is not a string, such as a number.
NonString == [EmptyText EXCEPT !.isString = FALSE]

Texts ==
    {EmptyText, NonString,
     \* 'The street light near the park is not working'
     Text("en", TRUE, NoMatches, <<0, 0, 0>>, <<0, 0>>, <<0, 0, 0>>, "general"),
     \* a long English complaint about a gas leak that matches every list
     Text("en", TRUE, [e \in Emotions |-> 5], <<7, 2, 1>>, <<4, 3>>, <<1, 2, 1>>,
          "gas_leak"),
     \* 'worried about the pothole, women are not safe at night'
     Text("en", TRUE, [NoMatches EXCEPT !.concern = 1], <<1, 0, 0>>, <<2, 0>>,
          <<1, 1, 1>>, "pothole"),
     \* 'angry'
     Text("en", FALSE, [NoMatches EXCEPT !.anger = 1], <<0, 0, 0>>, <<0, 1>>,
          <<0, 0, 0>>, "general"),
     \* a Tamil complaint none of whose words is listed
     Text("ta", TRUE, NoMatches, <<0, 0, 0>>, <<0, 0>>, <<0, 0, 0>>, "general"),
     \* a short Tamil word
     Text("ta", FALSE, NoMatches, <<0, 0, 0>>, <<0, 0>>, <<0, 0, 0>>, "general"),
     \* a Tamil complaint with listed words
     Text("ta", TRUE, [NoMatches EXCEPT !.urgency = 2, !.concern = 1], <<2, 0, 0>>,
          <<1, 0>>, <<0, 0, 0>>, "pothole")}

\* The category argument: absent, own keys of categoryMultipliers, a name
\* that is no key, and names every object inherits from Object.prototype.
NoCategory == "null"
InheritedKeys == {"constructor", "toString"}
CategoryArgs == {NoCategory, "gas_leak", "document_issue", "unlisted"} \cup InheritedKeys

\* A JavaScript number: NaN or a value.
NaN == [nan |-> TRUE, v |-> 0]
Number(v) == [nan |-> FALSE, v |-> v]

\* Math.min(x, 1.0) and x + y on numbers that may be NaN.
MathMinOne(x) == IF x.nan THEN NaN ELSE Number(Min(x.v, 10000))
Plus(x, y) == IF x.nan THEN NaN ELSE Number(x.v + y)

NoEmotions == [e \in Emotions |-> 0]

\* 0.25 per keyword of the language's list that occurs, at most 1.0; the
\* Tamil baseline when the text has content and nothing matched.
analyzeWithKeywords(text, language) ==
    LET emotions == [e \in Emotions |-> Min(2500 * text.keywords[e], 10000)]
    IN  IF language = "ta" /\ text.long /\ \A e \in Emotions : emotions[e] = 0
          THEN [emotions EXCEPT !.concern = 3000, !.urgency = 2000]
          ELSE emotions

detectUrgencyFromText(text) ==
    Min(1500 * text.urgencyWords + 3000 * text.criticalHealthPhrases
          + 2500 * text.safetyPhrases, 10000)

detectSafetyConcerns(text) ==
    Min(800 * text.criticalSafetyPhrases + 500 * text.vulnerableGroups
          + 300 * text.timeVulnerability, 1500)

calculateTextScore(matches, baseScore) == Min(matches * baseScore, 10000)

detectConcernFromText(text) == calculateTextScore(text.concernIndicators, 3000)

detectAngerFromText(text) == calculateTextScore(text.angerIndicators, 4000)

analyzeWithEnhancedKeywords(text, language) ==
    LET emotions == analyzeWithKeywords(text, language)
    IN  [emotions EXCEPT !.urgency = Max(@, detectUrgencyFromText(text)),
                         !.concern = Max(@, detectConcernFromText(text)),
                         !.anger = Max(@, detectAngerFromText(text))]

\* What a sentiment model answers: a label with a score in [0, 1], or data
\* in none of the three formats the conversion knows.
Labels == {"negative", "positive", "neutral", "other"}
SentimentScores == {0, 5000, 8000, 10000}
Sentiment(label, score) == [format |-> "label", label |-> label, score |-> score]
UnknownFormat == [format |-> "unknown", label |-> "other", score |-> 0]
Sentiments == {Sentiment(l, s) : l \in Labels, s \in SentimentScores} \cup {UnknownFormat}

\* The positive branch compares the promise detectLanguage returns with 'ta'
\* and 'hi', so its language adjustment never applies.
convertSentimentToEmotions(sentimentData, text) ==
    LET urgencyBoost == detectUrgencyFromText(text)
        score == sentimentData.score
    IN  IF sentimentData.format = "unknown"
          THEN [NoEmotions EXCEPT !.urgency = urgencyBoost,
                                  !.concern = (urgencyBoost * 8) \div 10]
        ELSE IF sentimentData.label = "negative"
          THEN [anger |-> IF score > 7000 THEN (score * 5) \div 10 ELSE 0,
                urgency |-> Min((score * 6) \div 10 + urgencyBoost, 10000),
                frustration |-> (score * 7) \div 10,
                concern |-> (score * 9) \div 10]
        ELSE IF sentimentData.label = "positive"
          THEN [NoEmotions EXCEPT !.urgency = urgencyBoost]
        ELSE IF sentimentData.label = "neutral"
          THEN [NoEmotions EXCEPT !.urgency = urgencyBoost,
                                  !.concern = (urgencyBoost * 5) \div 10]
        ELSE NoEmotions

\* urgency 0.4, anger 0.3, concern 0.2, frustration 0.1; times 1.2, at most
\* 1.0, when concern is above 0.3.
calculateEmotionScore(emotions) ==
    LET baseScore == (4 * emotions.urgency + 3 * emotions.anger + 2 * emotions.concern
                        + emotions.frustration) \div 10
    IN  IF emotions.concern > 3000 THEN Min((baseScore * 12) \div 10, 10000)
        ELSE baseScore

\* categoryMultipliers[category] in tenths, for the keys the model uses.
categoryMultipliers ==
    [c \in {"gas_leak", "pothole", "document_issue", "general"} |->
        IF c = "gas_leak" THEN 19 ELSE IF c = "pothole" THEN 14 ELSE 10]

\* categoryMultipliers[category] || 1.0, then Math.min(score * multiplier,
\* 1.0).  For a name inherited from Object.prototype the property read gives
\* a function, which is truthy, and the product is NaN.
applyCategoryAdjustments(score, category) ==
    IF category \in DOMAIN categoryMultipliers
      THEN MathMinOne(Number((score * categoryMultipliers[category]) \div 10))
    ELSE IF category \in InheritedKeys THEN MathMinOne(NaN)
    ELSE MathMinOne(Number(score))

\* detectIssueCategory: the key of categoryPatterns with most matches, else
\* 'general'.
detectIssueCategory(text) == text.topic

\* The number of configured models.
NumModels == 4

\* What analyzeEmotion hands to its caller: an object, or an exception.
EmotionResult(success, emotionScore, emotions, analysisMethod) ==
    [returned |-> TRUE, success |-> success, emotionScore |-> emotionScore,
     emotions |-> emotions, analysisMethod |-> analysisMethod]

NoResult == [EmotionResult(FALSE, Number(0), NoEmotions, "none") EXCEPT !.returned = FALSE]

\* A catch that hands the error on to the caller.
OuterCatchRethrows == NoResult

\* The outer catch of analyzeEmotion.
OuterCatch == EmotionResult(FALSE, Number(5000), NoEmotions, "emergency-fallback")

\* The tail of analyzeEmotion, from calculateEmotionScore to the return.
ScoreAndReturn(text, category, emotions, analysisMethod) ==
    LET emotionScore == calculateEmotionScore(emotions)
        adjustedScore == applyCategoryAdjustments(emotionScore, category)
        safetyBoost == detectSafetyConcerns(text)
    IN  EmotionResult(TRUE,
                      IF safetyBoost > 0 THEN MathMinOne(Plus(adjustedScore, safetyBoost))
                      ELSE adjustedScore,
                      emotions, analysisMethod)

\* The loop of analyzeWithAI gives up before the last model was tried.
GivesUpEarly(i) == i >= NumModels - 1

\* i === this.config.models.length - 1, for models counted from 1.
IsLastModel(i) == i = NumModels

IdleEmo ==
    [pc |-> "idle", text |-> EmptyText, category |-> NoCategory, token |-> FALSE,
     calls |-> <<>>, failed |-> {}, answer |-> UnknownFormat, result |-> NoResult]

\* analyzeEmotion(text, category) up to its first call of a model, or to its
\* return when no model is called.  token tells whether HUGGINGFACE_API_TOKEN
\* starts with 'hf_' and is longer than 20 characters.
AnalyzeEmotion ==
    /\ emo.pc = "idle"
    /\ \E text \in Texts, categoryArg \in CategoryArgs, token \in BOOLEAN :
          LET category == IF categoryArg = NoCategory THEN detectIssueCategory(text)
                          ELSE categoryArg
              begun == [IdleEmo EXCEPT !.text = text, !.category = category,
                                         !.token = token]
              keywords == analyzeWithEnhancedKeywords(text, text.language)
          IN  IF ~text.isString
                THEN emo' = [begun EXCEPT !.pc = "done", !.result = OuterCatch]
              ELSE IF text.language = "ta"
                THEN emo' = [begun EXCEPT !.pc = "done",
                               !.result = ScoreAndReturn(text, category, keywords,
                                                         "enhanced-keywords-tamil")]
              ELSE IF token
                THEN emo' = [begun EXCEPT !.pc = "model"]
              ELSE emo' = [begun EXCEPT !.pc = "done",
                             !.result = ScoreAndReturn(text, category, keywords,
                                                       "enhanced-keywords")]
    /\ UNCHANGED <<voteVars, sharedVars, adminVars, calcVars, chatVars, intakeVars>>

\* One round of the loop of analyzeWithAI: the next model of the list is
\* called.  Its answer is converted and ends the analysis as 'ai-powered'; an
\* error of the call, or of the conversion of a malformed answer, moves on to
\* the next model, and after the last model to the keyword analysis.
CallModel ==
    /\ emo.pc = "model"
    /\ LET i == Len(emo.calls) + 1
       IN  \/ \E sentimentData \in Sentiments :
                 emo' = [emo EXCEPT !.pc = "done", !.calls = Append(@, i),
                           !.answer = sentimentData,
                           !.result = ScoreAndReturn(emo.text, emo.category,
                                        convertSentimentToEmotions(sentimentData, emo.text),
                                        "ai-powered")]
           \/ IF IsLastModel(i)
                THEN emo' = [emo EXCEPT !.pc = "done", !.calls = Append(@, i),
                               !.failed = @ \cup {i},
                               !.result = ScoreAndReturn(emo.text, emo.category,
                                            analyzeWithEnhancedKeywords(emo.text,
                                                                        emo.text.language),
                                            "enhanced-keywords")]
                ELSE emo' = [emo EXCEPT !.calls = Append(@, i), !.failed = @ \cup {i}]
    /\ UNCHANGED <<voteVars, sharedVars, adminVars, calcVars, chatVars, intakeVars>>

(***************************************************************************)
(* The chatbot routes.  conversationSessions is a Map: its keys keep the   *)
(* order in which they were inserted, and set on a key it holds leaves the *)
(* key where it is.  The handlers await nothing but promises that are      *)
(* already settled, so no other request runs in the middle of one.         *)
(***************************************************************************)
\* The source keeps at most 100 sessions; the model keeps MaxSessions.
MaxSessions == 2
MaxChatRequests == 5

ChatUsers == {"anonymous", "u1", "u2", "u3"}

Session(userId, messages) == [userId |-> userId, messages |-> messages]

Keys(map) == {map[i].userId : i \in 1..Len(map)}

IndexOf(map, userId) == CHOOSE i \in 1..Len(map) : map[i].userId = userId

\* conversationSessions.get(userId) || { messages: [] ... }
MapGet(map, userId) ==
    IF userId \in Keys(map) THEN map[IndexOf(map, userId)] ELSE Session(userId, 0)

\* conversationSessions.set(userId, session)
MapSet(map, userId, session) ==
    IF userId \in Keys(map) THEN [map EXCEPT ![IndexOf(map, userId)] = session]
    ELSE Append(map, session)

\* conversationSessions.delete(userId)
MapDelete(map, userId) == SelectSeq(map, LAMBDA s : s.userId # userId)

\* A clean-up that removes the key inserted last.
CleanUpNewest(map) ==
    IF Len(map) > MaxSessions THEN SubSeq(map, 1, Len(map) - 1) ELSE map

\* Clean up old sessions: the first key of keys() is deleted when the size
\* is above the limit.
CleanUp(map) ==
    IF Len(map) > MaxSessions THEN MapDelete(map, map[1].userId) ELSE map

ChatAnswer(route, userId, code) == [route |-> route, userId |-> userId, code |-> code]

\* oldestKey is the key the last request deleted in its clean-up.
IdleChat ==
    [knowledgeMatcher |-> TRUE, served |-> 0, oldestKey |-> "none",
     answer |-> ChatAnswer("none", "anonymous", 0)]

\* POST /api/chatbot/message; message is a non-empty string, or it is
\* missing or no string.  503 while the knowledge base cannot be built,
\* 400 for a message that is no string; the user message is pushed to the
\* session object, which is the stored one when the user has a session; an
\* exception of the knowledge matcher is answered 500 before the session is
\* written; else the bot message is pushed, the session written and the
\* oldest session cleaned up.
PostMessage ==
    /\ chat.served < MaxChatRequests
    /\ \E userId \in ChatUsers, message \in {"string", "missing"}, initialized \in BOOLEAN,
          matched \in BOOLEAN :
          LET ready == chat.knowledgeMatcher \/ initialized
              session == MapGet(conversationSessions, userId)
              asked == [session EXCEPT !.messages = @ + 1]
              replied == [asked EXCEPT !.messages = @ + 1]
              written == MapSet(conversationSessions, userId, replied)
              answer(code) == [chat EXCEPT !.knowledgeMatcher = ready, !.served = @ + 1,
                                           !.oldestKey = "none",
                                           !.answer = ChatAnswer("message", userId, code)]
          IN  IF ~ready
                THEN /\ chat' = answer(503)
                     /\ UNCHANGED conversationSessions
              ELSE IF message = "missing"
                THEN /\ chat' = answer(400)
                     /\ UNCHANGED conversationSessions
              ELSE IF ~matched
                THEN /\ chat' = answer(500)
                     /\ conversationSessions' =
                            IF userId \in Keys(conversationSessions)
                              THEN MapSet(conversationSessions, userId, asked)
                              ELSE conversationSessions
              ELSE /\ chat' = [answer(200) EXCEPT
                                 !.oldestKey = IF Len(written) > MaxSessions
                                                 THEN written[1].userId ELSE "none"]
                   /\ conversationSessions' = CleanUp(written)
    /\ UNCHANGED <<voteVars, sharedVars, adminVars, calcVars, emoVars, intakeVars>>

\* DELETE /api/chatbot/history/:userId
DeleteHistory ==
    /\ chat.served < MaxChatRequests
    /\ \E userId \in ChatUsers :
          /\ conversationSessions' = MapDelete(conversationSessions, userId)
          /\ chat' = [chat EXCEPT !.served = @ + 1, !.oldestKey = "none",
                                  !.answer = ChatAnswer("delete", userId, 200)]
    /\ UNCHANGED <<voteVars, sharedVars, adminVars, calcVars, emoVars, intakeVars>>

(***************************************************************************)
(* POST /api/complaints/submit as the inserted row sees it: the schema     *)
(* introspection, the validation of the body, the demo user, the row that  *)
(* is filtered and inserted, and the rows written after it.  db holds the  *)
(* tables the handler writes.                                              *)
(***************************************************************************)
MaxSubmits == 2

\* A field of the body that is undefined or ''.
Missing == ""

\* String.prototype.trim
Trim(s) == IF s = " Road " THEN "Road" ELSE s

\* The columns of table complaints among the keys of complaintData.
ComplaintColumns == {"title", "description", "category", "status", "user_id"}

\* SQL NULL
Null == "null"

ComplaintRow(title, description, category, st, user_id) ==
    [title |-> title, description |-> description, category |-> category,
     status |-> st, user_id |-> user_id]

\* What the status column holds in a row inserted without a status: the
\* column default of the schema, which the sources do not show.
StatusDefaults == {"pending", Null}

\* filterComplaintDataForInsertion: the keys of complaintData that are among
\* availableColumns; a column that is not in the inserted object takes its
\* default.
FilterColumns(complaintData, availableColumns, statusDefault) ==
    [k \in ComplaintColumns |->
        IF k \in availableColumns THEN complaintData[k]
        ELSE IF k = "status" THEN statusDefault ELSE Null]

\* The validation accepts a body without locationData.
MissingTextFields(body) ==
    body.title = Missing \/ body.description = Missing \/ body.category = Missing

\* !title || !description || !category || !locationData
MissingRequiredFields(body) ==
    \/ body.title = Missing \/ body.description = Missing
    \/ body.category = Missing \/ body.locationData = Missing

EmptyDb == [complaints |-> <<>>, complaint_updates |-> <<>>, complaint_votes |-> {},
            users |-> {}]

IdleSubmit ==
    [pc |-> "idle",
     body |-> [title |-> Missing, description |-> Missing, category |-> Missing,
               locationData |-> Missing, userId |-> "anonymous"],
     columns |-> {}, introspection |-> "none", userUuid |-> Null,
     inserted |-> ComplaintRow(Null, Null, Null, Null, Null), before |-> EmptyDb,
     code |-> 0, served |-> 0]

\* res.status(code).json(...)
SubmitAnswer(code) == sub' = [sub EXCEPT !.pc = "done", !.code = code]

\* A submission arrives: each field of the body is there or missing,
\* locationData is undefined, an object with coordinates or an object without,
\* userId is a UUID or none (default 'anonymous').  before remembers the
\* tables as they were.
StartIntake ==
    /\ sub.pc \in {"idle", "done"}
    /\ sub.served < MaxSubmits
    /\ \E title \in {Missing, "Road", " Road "}, description \in {Missing, "deep hole"},
          category \in {Missing, "pothole"},
          locationData \in {Missing, "coordinates", "empty"},
          userId \in {"uuid-1", "anonymous"} :
          sub' = [IdleSubmit EXCEPT
                    !.pc = "schema",
                    !.body = [title |-> title, description |-> description,
                              category |-> category, locationData |-> locationData,
                              userId |-> userId],
                    !.before = db, !.served = sub.served + 1]
    /\ UNCHANGED <<db, voteVars, sharedVars, adminVars, calcVars, emoVars, chatVars>>

\* checkComplaintsTableSchema() || []: the keys of the first row, [] for a
\* table without rows, null for an error; then the input validation.
CheckSchema ==
    /\ sub.pc = "schema"
    /\ \E failed \in BOOLEAN :
          LET introspection == IF failed THEN "null"
                               ELSE IF db.complaints = <<>> THEN "empty" ELSE "keys"
              columns == IF introspection = "keys" THEN ComplaintColumns ELSE {}
          IN  IF MissingRequiredFields(sub.body)
                THEN sub' = [sub EXCEPT !.pc = "done", !.code = 400,
                                        !.columns = columns,
                                        !.introspection = introspection]
                ELSE sub' = [sub EXCEPT !.pc = "priority", !.columns = columns,
                                        !.introspection = introspection]
    /\ UNCHANGED <<db, voteVars, sharedVars, adminVars, calcVars, emoVars, chatVars>>

\* calculateComprehensivePriority answers in every case; then the user id: a
\* UUID of the body is taken as it is, else the demo user is looked up.
PriorityAndUser ==
    /\ sub.pc = "priority"
    /\ IF sub.body.userId = "uuid-1"
         THEN sub' = [sub EXCEPT !.pc = "insert", !.userUuid = "uuid-1"]
         ELSE sub' = [sub EXCEPT !.pc = "demo_user"]
    /\ UNCHANGED <<db, voteVars, sharedVars, adminVars, calcVars, emoVars, chatVars>>

\* ensureDemoUser: the existing demo user, or one created by the RPC, the
\* SQL or the insert, or the generated UUID when every attempt failed.
EnsureDemoUser ==
    /\ sub.pc = "demo_user"
    /\ IF "demo" \in db.users
         THEN /\ sub' = [sub EXCEPT !.pc = "insert", !.userUuid = "demo"]
              /\ UNCHANGED db
         ELSE \/ /\ db' = [db EXCEPT !.users = @ \cup {"demo"}]
                 /\ sub' = [sub EXCEPT !.pc = "insert", !.userUuid = "demo"]
              \/ /\ sub' = [sub EXCEPT !.pc = "insert", !.userUuid = "generated"]
                 /\ UNCHANGED db
    /\ UNCHANGED <<voteVars, sharedVars, adminVars, calcVars, emoVars, chatVars>>

\* complaintData is built, filtered and inserted.  locationData without
\* address and coordinates throws on latitude.toFixed; an insert error is
\* thrown to the route's catch.  The database takes or refuses a row that
\* leaves out columns.
InsertComplaint ==
    /\ sub.pc = "insert"
    /\ IF sub.body.locationData # "coordinates"
         THEN /\ SubmitAnswer(500)
              /\ UNCHANGED db
         ELSE LET complaintData ==
                      ComplaintRow(Trim(sub.body.title), Trim(sub.body.description),
                                   sub.body.category, "pending", sub.userUuid)
              IN  \/ /\ SubmitAnswer(500)
                     /\ UNCHANGED db
                  \/ \E statusDefault \in StatusDefaults :
                        LET filteredData ==
                                FilterColumns(complaintData, sub.columns, statusDefault)
                        IN  /\ db' = [db EXCEPT !.complaints = Append(@, filteredData)]
                            /\ sub' = [sub EXCEPT !.pc = "update",
                                                  !.inserted = filteredData]
    /\ UNCHANGED <<voteVars, sharedVars, adminVars, calcVars, emoVars, chatVars>>

\* The 'Complaint submitted' row of complaint_updates; its error is logged.
InsertInitialUpdate ==
    /\ sub.pc = "update"
    /\ \/ db' = [db EXCEPT !.complaint_updates =
                      Append(@, [complaint_id |-> Len(db.complaints),
                                 updated_by_id |-> sub.userUuid])]
       \/ UNCHANGED db
    /\ sub' = [sub EXCEPT !.pc = "vote"]
    /\ UNCHANGED <<voteVars, sharedVars, adminVars, calcVars, emoVars, chatVars>>

\* The creator's upvote: delete, then insert; its error is logged and the
\* submission is answered with success.
InsertCreatorVote ==
    /\ sub.pc = "vote"
    /\ LET vote == [complaint_id |-> Len(db.complaints), user_id |-> sub.userUuid]
       IN  \/ db' = [db EXCEPT !.complaint_votes = @ \cup {vote}]
           \/ db' = [db EXCEPT !.complaint_votes = @ \ {vote}]
    /\ SubmitAnswer(200)
    /\ UNCHANGED <<voteVars, sharedVars, adminVars, calcVars, emoVars, chatVars>>

(***************************************************************************)
(* The tables and the requests before any request was issued: complaint    *)
(* c1 was submitted, nobody votes for it, no admin has opened it.          *)
(***************************************************************************)
LedgerAtRest ==
    /\ complaints = {"c1"}
    /\ vote_count = [c \in Complaints |-> 0]
    /\ complaint_votes = {}
    /\ nextId = 1
    /\ uniqueVotes \in BOOLEAN
    /\ req = [r \in Slots |-> IdleReq]
    /\ started = 0
    /\ hist = <<>>
    /\ status = [c \in Complaints |-> IF c = "c1" THEN "pending" ELSE "none"]
    /\ complaint_updates = <<UpdateRow("c1", "null", "pending", "submitted")>>

AdminAtRest ==
    /\ areq = [a \in AdminSlots |-> IdleAdmin]
    /\ astarted = 0

ScoringAtRest ==
    /\ call = IdleCall
    /\ stored = {}

ServicesAtRest ==
    /\ emo = IdleEmo
    /\ conversationSessions = <<>>
    /\ chat = IdleChat
    /\ sub = IdleSubmit
    /\ db = EmptyDb

(***************************************************************************)
(* The vote ledger as a whole.                                             *)
(***************************************************************************)
InitVotes ==
    /\ LedgerAtRest
    /\ dbFaults = FALSE
    /\ serial = FALSE
    /\ complaint_workflow = [c \in Complaints |-> NoWorkflow]
    /\ AdminAtRest
    /\ ScoringAtRest
    /\ ServicesAtRest

\* The same ledger with clients that wait for each answer.
InitSerial ==
    /\ LedgerAtRest
    /\ dbFaults = FALSE
    /\ serial = TRUE
    /\ complaint_workflow = [c \in Complaints |-> NoWorkflow]
    /\ AdminAtRest
    /\ ScoringAtRest
    /\ ServicesAtRest

\* The guest-votes router on a store whose updates of complaints may fail.
InitFaults ==
    /\ LedgerAtRest
    /\ dbFaults = TRUE
    /\ serial = FALSE
    /\ complaint_workflow = [c \in Complaints |-> NoWorkflow]
    /\ AdminAtRest
    /\ ScoringAtRest
    /\ ServicesAtRest

NextVotes ==
    \E r \in Slots :
       \/ StartVote(r) \/ StartSimplified(r) \/ StartGuestA(r)
       \/ StartGuestB(r) \/ StartSubmit(r)
       \/ VoteReadComplaint(r) \/ VoteLookup(r) \/ VoteMutate(r) \/ VoteReadCount(r)
       \/ SimplifiedReadComplaint(r) \/ SimplifiedLookup(r)
       \/ SimplifiedMutate(r) \/ SimplifiedReadCount(r)
       \/ GuestAReadComplaint(r) \/ GuestAInsert(r)
       \/ GuestAUpdateCount(r) \/ GuestAReadCount(r)
       \/ GuestBReadComplaint(r) \/ GuestBLookup(r) \/ GuestBMutate(r)
       \/ GuestBUpdateCount(r) \/ GuestBReadCount(r)
       \/ SubmitInsert(r) \/ SubmitInsertUpdate(r) \/ SubmitDeleteVote(r) \/ SubmitInsertVote(r)

SpecVotes == InitVotes /\ [][NextVotes]_vars

\* The requests of the guest-votes router.
NextGuestVotes ==
    \E r \in Slots :
       \/ StartGuestA(r) \/ StartGuestB(r)
       \/ GuestAReadComplaint(r) \/ GuestAInsert(r)
       \/ GuestAUpdateCount(r) \/ GuestAReadCount(r)
       \/ GuestBReadComplaint(r) \/ GuestBLookup(r) \/ GuestBMutate(r)
       \/ GuestBUpdateCount(r) \/ GuestBReadCount(r)

SpecFaults == InitFaults /\ [][NextGuestVotes]_vars

SpecSerial == InitSerial /\ [][NextVotes]_vars

(***************************************************************************)
(* Properties of the vote ledger.                                          *)
(***************************************************************************)
Quiescent == \A r \in Slots : ~Busy(r)

GuestKinds == {"guestA", "guestB"}

\* Both slots hold an answered guest request, and no other request was issued.
TwoGuestRequestsAnswered ==
    /\ started = 2
    /\ \A r \in Slots : /\ IsDone(r)
                         /\ req[r].kind \in GuestKinds
                         /\ req[r].cid = "c1"
                         /\ req[r].resp.code = 200

\* C1: once every vote operation has completed, the stored vote_count of each
\* complaint equals the number of its complaint_votes rows of type upvote.
C1_VoteCountEqualsUpvotes ==
    Quiescent => \A c \in complaints : vote_count[c] = Cardinality(Upvotes(c))

\* C2: complaint_votes never holds two rows of the same voter for the same
\* complaint.
C2_OneRowPerVoter ==
    \A v, w \in complaint_votes :
        (v.complaint_id = w.complaint_id /\ v.voter = w.voter) => v = w

\* C3: two guest upvotes from two distinct device ids on complaint c1, both
\* answered with success and nothing else issued, leave vote_count at the
\* initial value (0) plus 2.
C3_TwoGuestUpvotesAddTwo ==
    (/\ TwoGuestRequestsAnswered
     /\ req["r1"].who # req["r2"].who
     /\ \A r \in Slots : req[r].who # NoDevice /\ req[r].resp.action = "added")
    => vote_count["c1"] = 2

\* The kinds of request that toggle the vote of an identified voter.
IsToggleCall(h) ==
    /\ h.kind \in {"vote", "guestA", "guestB"}
    /\ h.who # NoDevice
    /\ h.code = 200

\* C4: when the same voter toggles twice in immediate sequence on the same
\* endpoint, vote_count after the second call and the voteCount the second
\* call returns both equal vote_count before the first call.
C4_ToggleTwiceRestores ==
    \A i \in 1..(Len(hist) - 1) :
        (/\ IsToggleCall(hist[i]) /\ IsToggleCall(hist[i + 1])
         /\ hist[i].kind = hist[i + 1].kind
         /\ hist[i].who = hist[i + 1].who
         /\ hist[i].cid = hist[i + 1].cid)
        => /\ hist[i + 1].after = hist[i].before
           /\ hist[i + 1].voteCount = hist[i].before

\* C5: when the only requests issued are two guest votes of the same device
\* on c1, in any interleaving, vote_count differs from its initial value (0)
\* by the net effect of what was stored: the upvote rows now in the table.
C5_SameVoterNetEffect ==
    (/\ TwoGuestRequestsAnswered
     /\ req["r1"].who = req["r2"].who
     /\ req["r1"].kind = req["r2"].kind
     /\ req["r1"].who # NoDevice)
    => vote_count["c1"] = Cardinality(Upvotes("c1"))

(***************************************************************************)
(* The admin console working on complaint c1, one request at a time.  The  *)
(* details page of c1 may or may not have been opened before.              *)
(***************************************************************************)
InitWorkflow ==
    /\ LedgerAtRest
    /\ dbFaults = FALSE
    /\ serial = TRUE
    /\ complaint_workflow \in
          {[c \in Complaints |-> IF c = "c1" THEN w ELSE NoWorkflow] :
              w \in {NoWorkflow, DefaultWorkflow}}
    /\ AdminAtRest
    /\ ScoringAtRest
    /\ ServicesAtRest

NextWorkflow ==
    \E a \in AdminSlots :
       \/ StartStageUpdate(a) \/ StageReadWorkflow(a) \/ StageUpdateWorkflow(a)
       \/ StageUpdateStatus(a) \/ StageInsertUpdate(a)
       \/ StartNextStage(a) \/ NextStageRead(a) \/ NextStageUpdate(a)
       \/ StartStatusOverride(a) \/ StatusOverrideUpdate(a)
       \/ StatusOverrideInsertUpdate(a)
       \/ StartDetails(a) \/ DetailsReadComplaint(a) \/ DetailsReadWorkflow(a)
       \/ DetailsCreateWorkflow(a)

SpecWorkflow == InitWorkflow /\ [][NextWorkflow]_vars

\* The admin routes with the deletion of a citizen, on a complaint that has
\* the vote row its submission inserted for its creator.
InitCascade ==
    /\ complaints = {"c1"}
    /\ vote_count = [c \in Complaints |-> 0]
    /\ complaint_votes = {VoteRow(1, "c1", UserId("u1"), "upvote", -1, UserId("u1"))}
    /\ nextId = 2
    /\ uniqueVotes \in BOOLEAN
    /\ dbFaults = FALSE
    /\ req = [r \in Slots |-> IdleReq]
    /\ started = 0
    /\ serial = TRUE
    /\ hist = <<>>
    /\ status = [c \in Complaints |-> IF c = "c1" THEN "pending" ELSE "none"]
    /\ complaint_updates = <<UpdateRow("c1", "null", "pending", "submitted")>>
    /\ complaint_workflow \in
          {[c \in Complaints |-> IF c = "c1" THEN w ELSE NoWorkflow] :
              w \in {NoWorkflow, DefaultWorkflow}}
    /\ AdminAtRest
    /\ ScoringAtRest
    /\ ServicesAtRest

NextCascade ==
    \/ NextWorkflow
    \/ \E a \in AdminSlots :
          \/ StartDeleteCitizen(a) \/ DeleteSelectComplaints(a) \/ DeleteUpdates(a)
          \/ DeleteWorkflow(a) \/ DeleteComplaints(a) \/ DeleteUser(a)

SpecCascade == InitCascade /\ [][NextCascade]_vars

\* Two admins update the stages of c1 at the same time.
InitAdmins ==
    /\ LedgerAtRest
    /\ dbFaults = FALSE
    /\ serial = FALSE
    /\ complaint_workflow = [c \in Complaints |-> IF c = "c1" THEN DefaultWorkflow
                                                               ELSE NoWorkflow]
    /\ AdminAtRest
    /\ ScoringAtRest
    /\ ServicesAtRest

NextStageUpdates ==
    \E a \in AdminSlots :
       \/ StartStageUpdate(a) \/ StageReadWorkflow(a) \/ StageUpdateWorkflow(a)
       \/ StageUpdateStatus(a) \/ StageInsertUpdate(a)

SpecAdmins == InitAdmins /\ [][NextStageUpdates]_vars

(***************************************************************************)
(* Properties of the workflow.                                             *)
(***************************************************************************)
AdminQuiescent == \A a \in AdminSlots : ~AdminBusy(a)

\* The stage table of the specification, for the row w left by an update of
\* stage k.
TableStatus(w, k) ==
    IF allStagesCompleted(w) THEN "resolved"
    ELSE IF anyStageInProgress(w) THEN "in_progress"
    ELSE IF /\ StepStatus(w, k) = "cancelled"
            /\ \A j \in StageIds : StepStatus(w, j) # "completed"
           THEN "cancelled"
    ELSE "pending"

\* The statuses the stage table allows for a stored row, whichever stage was
\* updated last; a complaint without a row is as created: pending.
StageTableValues(w) ==
    IF w = NoWorkflow THEN {"pending"} ELSE {TableStatus(w, k) : k \in StageIds}

\* The last step of a stage update that is answered 200.
StageUpdateAnswers(a) ==
    /\ areq[a].kind = "stage"
    /\ areq[a].pc = "su_log"
    /\ areq'[a].pc = "done"

\* A step of a stage update.
StageUpdateSteps(a) ==
    /\ areq[a].kind = "stage"
    /\ AdminBusy(a)
    /\ areq'[a] # areq[a]

\* No status override was issued: every override writes a status_change row.
NoOverrideLogged ==
    \A i \in 1..Len(complaint_updates) : complaint_updates[i].note # "status_change"

\* C6: when a stage update is answered, complaints.status equals the stage
\* table applied to the three stage statuses the update produced: resolved
\* when all are completed, else in_progress when any is in_progress, else
\* cancelled when the updated stage is cancelled and none is completed, else
\* pending.
C6_StatusFollowsStageTable ==
    [][\A a \in AdminSlots :
          StageUpdateAnswers(a) =>
             status'[areq[a].cid] =
                TableStatus(complaint_workflow'[areq[a].cid], areq[a].stageId)]_vars

\* C7: after any sequence of creation, stage updates and stage/next calls (no
\* status override), complaints.status of c1 is a value the stage table
\* derives from the stage statuses stored in its workflow row.
C7_StatusIsFunctionOfStages ==
    (AdminQuiescent /\ NoOverrideLogged)
    => status["c1"] \in StageTableValues(complaint_workflow["c1"])

\* C8: once complaints.status of c1 is resolved (by its stage updates, no
\* status override having been issued), no step of a stage update changes it.
C8_ResolvedStaysResolved ==
    [][(/\ status["c1"] = "resolved"
        /\ NoOverrideLogged
        /\ \E a \in AdminSlots : StageUpdateSteps(a))
          => status'["c1"] = "resolved"]_vars

(***************************************************************************)
(* One scoring computation.                                                *)
(***************************************************************************)
InitScoring ==
    /\ LedgerAtRest
    /\ dbFaults = FALSE
    /\ serial = TRUE
    /\ complaint_workflow = [c \in Complaints |-> NoWorkflow]
    /\ AdminAtRest
    /\ ScoringAtRest
    /\ ServicesAtRest

NextScoring ==
    \/ StartSubmitScoring \/ StartCalculatePriority \/ ApplyFilter
    \/ ComprehensiveCall \/ LocationCall \/ InsertScores

SpecScoring == InitScoring /\ [][NextScoring]_vars

(***************************************************************************)
(* Properties of the scoring.                                              *)
(***************************************************************************)
\* 0 <= v < 10 with at most two fractional digits.
FitsNumeric32(v) == v >= 0 /\ v < 100000 /\ v % 100 = 0

\* calculateComprehensivePriority has returned to its caller.
PriorityReturned == call.analysis # NoAnalysis

C10_AnalysisIsBounded ==
    PriorityReturned =>
       /\ call.analysis.totalScore >= 0
       /\ call.analysis.totalScore <= 10000
       /\ call.analysis.priorityLevel \in Levels
       /\ call.analysis.path = "fallback" =>
             /\ call.analysis.totalScore = getFallbackPriority(call.category)
             /\ call.analysis.totalScore >= 4000
             /\ call.analysis.totalScore <= 9000
             /\ call.analysis.reasoning = "Location analysis unavailable"

\* C11: when the location service throws on every call (the analysis is the
\* category fallback), submit and calculate-priority answer 200.
C11_ServiceFailureAnswersSuccess ==
    (/\ call.pc = "done"
     /\ call.fn \in {"submit", "calculate-priority"}
     /\ call.analysis.path = "fallback")
    => call.code = 200

\* C12: an analysis returned through the two-factor path or the category
\* fallback carries the level the thresholds 0.8 / 0.6 / 0.4 give its
\* totalScore.
C12_LevelFollowsThresholds ==
    call.analysis.path \in {"two-factor", "fallback"}
    => call.analysis.priorityLevel =
          (IF call.analysis.totalScore >= 8000 THEN "CRITICAL"
           ELSE IF call.analysis.totalScore >= 6000 THEN "HIGH"
           ELSE IF call.analysis.totalScore >= 4000 THEN "MEDIUM"
           ELSE "LOW")

\* C13: complaints.vote_count is never negative, whatever the interleaving
\* of vote operations.
C13_VoteCountNeverNegative == \A c \in Complaints : vote_count[c] >= 0

\* A guest toggle that read vote_count 0 has taken an upvote back and written
\* the count.
C13_ToggleAtZeroWritten ==
    \E r \in Slots :
        /\ req[r].kind = "guestB"
        /\ req[r].pc = "gb_count"
        /\ req[r].existing # NoRow
        /\ req[r].snap = 0
        /\ req[r].delta = -1
        /\ vote_count[req[r].cid] = 0

\* The voter id under which request r inserts its vote row.
InsertedVoterId(r) ==
    IF req[r].kind = "guestB" THEN generateGuestUUID(req[r].who) ELSE req[r].who

\* Request r found no row of its voter and its insert now meets one.
InsertMeetsConflict(r) ==
    /\ req[r].pc \in {"v_mutate", "gb_mutate"}
    /\ req[r].existing = NoRow
    /\ req[r].who # NoDevice
    /\ InsertConflicts(req[r].cid, InsertedVoterId(r))

\* C14: a vote insert that fails on the unique constraint, because a
\* concurrent request wrote the voter's row first, is not answered with a
\* server error.
C14_ConflictIsNotServerError ==
    [][\A r \in Slots :
          (InsertMeetsConflict(r) /\ req'[r].pc = "done") => req'[r].resp.code < 500]_vars

\* C15: a request whose update of vote_count failed after its vote row was
\* written changes neither complaint_votes nor vote_count at the failing step
\* or afterwards, and its next step answers 200.
C15_CountFailureKeepsVote ==
    [][\A r \in Slots :
          /\ (~req[r].updateError /\ req'[r].updateError)
                => /\ req'[r].pc \in {"ga_count", "gb_count"}
                   /\ complaint_votes' = complaint_votes
                   /\ vote_count' = vote_count
          /\ (req[r].updateError /\ Busy(r) /\ req'[r] # req[r])
                => /\ req'[r].pc = "done"
                   /\ req'[r].resp.code = 200
                   /\ complaint_votes' = complaint_votes
                   /\ vote_count' = vote_count]_vars

\* A new guest vote was answered 200 although its count update failed: the
\* row is stored and vote_count is still 0.
C15_VoteKeptCountStale ==
    \E r \in Slots :
        /\ req[r].pc = "done"
        /\ req[r].updateError
        /\ req[r].resp.code = 200
        /\ req[r].resp.action = "added"
        /\ Upvotes(req[r].cid) # {}
        /\ vote_count[req[r].cid] = 0

\* The kinds of request that are vote operations.
VoteKinds == {"vote", "simplified", "guestA", "guestB"}

\* C16: the voteCount a successful vote operation returns is the vote_count
\* the complaint row holds when the handler reads it back after the mutation.
C16_ReturnedCountIsReread ==
    [][\A r \in Slots :
          (/\ Busy(r)
           /\ req[r].kind \in VoteKinds
           /\ req'[r].pc = "done"
           /\ req'[r].resp.code = 200)
          => req'[r].resp.voteCount = vote_count[req[r].cid]]_vars

\* C17: every vote row written for a guest request that carried a deviceId
\* is stored under generateGuestUUID(deviceId), so that a later request of the
\* same device finds it.
C17_GuestRowKeyedByDevice ==
    \A v \in complaint_votes :
        (v.voter.tag = "device" /\ v.voter.name # "temp")
        => v.user_id = generateGuestUUID([name |-> v.voter.name, n |-> v.voter.n])

\* C18: a stage update answered 200 appends exactly one row to
\* complaint_updates, whose old_status is the status the stage had before the
\* update and whose new_status is the requested status; no step of a stage
\* update changes or removes a row already there.
C18_StageUpdateAudited ==
    [][\A a \in AdminSlots :
          /\ StageUpdateAnswers(a)
                => complaint_updates' =
                      Append(complaint_updates,
                             UpdateRow(areq[a].cid, areq[a].before, areq[a].status, "stage"))
          /\ StageUpdateSteps(a)
                => /\ Len(complaint_updates') >= Len(complaint_updates)
                   /\ SubSeq(complaint_updates', 1, Len(complaint_updates))
                         = complaint_updates]_vars

\* A step of a stage update or of a stage/next call, in a run without any
\* status override.
StageOrNextSteps ==
    /\ NoOverrideLogged
    /\ \A a \in AdminSlots : areq[a].kind # "override"
    /\ \E a \in AdminSlots : areq[a].kind \in {"stage", "next"} /\ areq'[a] # areq[a]

\* pending, in_progress, resolved in their order.
StatusRank(s) == IF s = "pending" THEN 0 ELSE IF s = "in_progress" THEN 1 ELSE 2

\* C19: stage updates and stage/next calls change the status of a complaint
\* that is not resolved only forward (pending, in_progress, resolved) or to
\* cancelled; a cancelled complaint never becomes pending or in_progress.
C19_StatusMovesForward ==
    [][\A c \in complaints :
          (/\ StageOrNextSteps
           /\ status[c] # "resolved"
           /\ status'[c] # status[c])
          => \/ status'[c] = "cancelled"
             \/ /\ status[c] \in {"pending", "in_progress"}
                /\ status'[c] \in {"in_progress", "resolved"}
                /\ StatusRank(status'[c]) > StatusRank(status[c])
             \/ status[c] = "cancelled" /\ status'[c] = "resolved"]_vars

\* The rows of the dependent tables that reference complaint c.
ReferencesTo(c) ==
    {v \in complaint_votes : v.complaint_id = c}
    \cup {complaint_updates[i] : i \in {j \in 1..Len(complaint_updates) :
                                          complaint_updates[j].complaint_id = c}}
    \cup (IF complaint_workflow[c] = NoWorkflow THEN {} ELSE {complaint_workflow[c]})

\* C20: when the deletion of a citizen removes a complaint row, no row of
\* complaint_votes, complaint_updates or complaint_workflow references that
\* complaint any more; and when the deletion is answered 200, no dependent row
\* references a complaint that does not exist.
C20_DependentsDeletedFirst ==
    [][\A a \in AdminSlots :
          (areq[a].kind = "delete" /\ areq'[a] # areq[a])
          => /\ \A c \in complaints \ complaints' : ReferencesTo(c) = {}
             /\ (areq'[a].pc = "done" /\ areq'[a].code = 200)
                   => \A c \in Complaints \ complaints' : ReferencesTo(c)' = {}]_vars

(***************************************************************************)
(* The emotion analysis: one call of analyzeEmotion at a time.             *)
(***************************************************************************)
InitEmotion ==
    /\ LedgerAtRest
    /\ dbFaults = FALSE
    /\ serial = TRUE
    /\ complaint_workflow = [c \in Complaints |-> NoWorkflow]
    /\ AdminAtRest
    /\ ScoringAtRest
    /\ ServicesAtRest

NextEmotion == AnalyzeEmotion \/ CallModel

SpecEmotion == InitEmotion /\ [][NextEmotion]_vars

InUnit(x) == ~x.nan /\ 0 <= x.v /\ x.v <= 10000

AllModels == 1..NumModels

\* What the enhanced keyword analysis gives for the text and category of the
\* call.
KeywordResult ==
    ScoreAndReturn(emo.text, emo.category,
                   analyzeWithEnhancedKeywords(emo.text, emo.text.language),
                   "enhanced-keywords")

\* C21: for every text and category, with sentiment scores in [0, 1], the
\* result of analyzeEmotion has an emotionScore in [0, 1] and every emotion
\* in [0, 1], and for the empty text the emotionScore is 0.
C21_ScoresWithinUnit ==
    (emo.pc = "done" /\ emo.result.returned)
       => /\ InUnit(emo.result.emotionScore)
          /\ \A e \in Emotions : emo.result.emotions[e] \in 0..10000
          /\ emo.text = EmptyText => emo.result.emotionScore = Number(0)

\* C22: analyzeEmotion always returns an object: when every model call
\* failed it is the result of the keyword analysis, and when another step
\* failed (the text is no string) it has emotionScore 0.5 and every emotion 0.
C22_NeverRaises ==
    emo.pc = "done"
       => /\ emo.result.returned
          /\ emo.failed = AllModels => emo.result = KeywordResult
          /\ ~emo.text.isString
                => /\ emo.result.emotionScore = Number(5000)
                   /\ emo.result.emotions = NoEmotions

\* Every model failed and the keyword result was returned.
C22_AllModelsFailed ==
    /\ emo.pc = "done"
    /\ emo.failed = AllModels
    /\ emo.result.returned
    /\ emo.result.analysisMethod = "enhanced-keywords"
    /\ emo.result.emotions.anger > 0

InitIntake ==
    /\ LedgerAtRest
    /\ dbFaults = FALSE
    /\ serial = TRUE
    /\ complaint_workflow = [c \in Complaints |-> NoWorkflow]
    /\ AdminAtRest
    /\ ScoringAtRest
    /\ ServicesAtRest

NextIntake ==
    \/ StartIntake \/ CheckSchema \/ PriorityAndUser \/ EnsureDemoUser
    \/ InsertComplaint \/ InsertInitialUpdate \/ InsertCreatorVote

SpecIntake == InitIntake /\ [][NextIntake]_vars

\* One of title, description, category and locationData is not in the body.
SomeFieldMissing ==
    \E f \in {"title", "description", "category", "locationData"} : sub.body[f] = Missing

\* C24: a submission with title, description, category or locationData
\* missing is answered 400 (code MISSING_REQUIRED_FIELDS, the handler's only
\* 400) and no row of complaints, complaint_updates, complaint_votes or users
\* is created or changed; no other submission is answered 400.
C24_MissingFieldsWriteNothing ==
    /\ SomeFieldMissing => db = sub.before
    /\ sub.pc = "done" => (sub.code = 400 <=> SomeFieldMissing)

\* A submission without locationData was answered 400 while the tables held
\* an earlier complaint.
C24_RejectedWithoutLocation ==
    /\ sub.pc = "done"
    /\ sub.code = 400
    /\ sub.body.locationData = Missing
    /\ sub.body.title # Missing /\ sub.body.description # Missing
    /\ sub.body.category # Missing
    /\ db.complaints # <<>>
    /\ db = sub.before

\* C29: the complaint row inserted by a submission that is answered with
\* success has status 'pending' and the submitted (trimmed) title, description
\* and category, whatever the schema introspection returned.
C29_InsertedRowCarriesSubmission ==
    (sub.pc = "done" /\ sub.code = 200)
       => /\ sub.inserted.status = "pending"
          /\ sub.inserted.title = Trim(sub.body.title)
          /\ sub.inserted.description = Trim(sub.body.description)
          /\ sub.inserted.category = sub.body.category

(***************************************************************************)
(* The chatbot: messages and history deletions, one after the other.  The  *)
(* knowledge base may or may not have been built when the module loaded.   *)
(***************************************************************************)
InitChat ==
    /\ LedgerAtRest
    /\ dbFaults = FALSE
    /\ serial = TRUE
    /\ complaint_workflow = [c \in Complaints |-> NoWorkflow]
    /\ AdminAtRest
    /\ ScoringAtRest
    /\ emo = IdleEmo
    /\ conversationSessions = <<>>
    /\ chat \in {[IdleChat EXCEPT !.knowledgeMatcher = b] : b \in BOOLEAN}
    /\ sub = IdleSubmit
    /\ db = EmptyDb

NextChat == PostMessage \/ DeleteHistory

SpecChat == InitChat /\ [][NextChat]_vars

\* C25: there are never more sessions than the limit; a message that is
\* answered leaves its own session stored; it evicts a session exactly when
\* its key is new and the store is full, and then it evicts one session,
\* the one at the front of the insertion order, and leaves the others in
\* their order.
C25_OldestSessionEvicted ==
    /\ [](Len(conversationSessions) <= MaxSessions)
    /\ [][(chat'.served = chat.served + 1 /\ chat'.answer.route = "message"
              /\ chat'.answer.code = 200)
            => LET userId == chat'.answer.userId
                   before == Keys(conversationSessions)
                   after == Keys(conversationSessions')
                   evicted == before \ after
               IN  /\ userId \in after
                   /\ after \subseteq before \cup {userId}
                   /\ Cardinality(evicted) <= 1
                   /\ evicted # {}
                         <=> (userId \notin before
                                /\ Len(conversationSessions) = MaxSessions)
                   /\ evicted # {} => evicted = {conversationSessions[1].userId}
                   /\ \A i, j \in 1..Len(conversationSessions') :
                         (i < j /\ conversationSessions'[j].userId \in before)
                            => /\ conversationSessions'[i].userId \in before
                               /\ IndexOf(conversationSessions,
                                          conversationSessions'[i].userId)
                                    < IndexOf(conversationSessions,
                                              conversationSessions'[j].userId)]_vars

\* A message of a new user was answered with the store full: the oldest key
\* is gone and the new session is the last of the store.
C25_StoreFullEvicted ==
    /\ chat.answer.route = "message" /\ chat.answer.code = 200
    /\ chat.oldestKey \in ChatUsers \ Keys(conversationSessions)
    /\ Len(conversationSessions) = MaxSessions
    /\ conversationSessions[MaxSessions] = Session(chat.answer.userId, 2)

(***************************************************************************)
(* The stage routes alone: stage updates and stage/next, one request at a  *)
(* time, for a complaint with or without a workflow row.                   *)
(***************************************************************************)
NextStages ==
    \E a \in AdminSlots :
       \/ StartStageUpdate(a) \/ StageReadWorkflow(a) \/ StageUpdateWorkflow(a)
       \/ StageUpdateStatus(a) \/ StageInsertUpdate(a)
       \/ StartNextStage(a) \/ NextStageRead(a) \/ NextStageUpdate(a)

SpecStages == InitWorkflow /\ [][NextStages]_vars

\* The tables a stage update or stage/next may write.
StageTables == <<complaint_workflow, status, complaint_updates>>

\* C26: a stage update passes the validation only with a stage id in
\* {1, 2, 3} and a status in {pending, in_progress, completed, cancelled} and
\* is answered 400 otherwise; one that finds no workflow row is answered 404;
\* in these cases the workflow rows, complaints.status and the audit log
\* stay as they are.
C26_InvalidStageUpdateRejected ==
    [][\A a \in AdminSlots :
          /\ (astarted' = astarted + 1 /\ areq[a].pc \in {"idle", "done"}
                 /\ areq'[a].kind = "stage"
                 /\ (areq'[a] # areq[a] \/ \A b \in AdminSlots : areq'[b] = areq[b]))
                => /\ UNCHANGED StageTables
                   /\ \/ /\ areq'[a].pc = "su_workflow"
                         /\ areq'[a].stageId \in {1, 2, 3}
                         /\ areq'[a].status
                               \in {"pending", "in_progress", "completed", "cancelled"}
                      \/ /\ areq'[a].pc = "done"
                         /\ areq'[a].code = 400
          /\ (areq[a].pc = "su_workflow" /\ areq'[a] # areq[a])
                => IF complaint_workflow[areq[a].cid] = NoWorkflow
                     THEN /\ areq'[a].pc = "done"
                          /\ areq'[a].code = 404
                          /\ UNCHANGED StageTables
                     ELSE areq'[a].pc = "su_update"]_vars

\* A stage update for a complaint without a workflow row was answered 404
\* and the tables are as they were at first.
C26_NoWorkflowAnswered404 ==
    /\ areq["a1"].kind = "stage"
    /\ areq["a1"].pc = "done"
    /\ areq["a1"].code = 404
    /\ complaint_workflow["c1"] = NoWorkflow
    /\ status["c1"] = "pending"
    /\ Len(complaint_updates) = 1

\* C27: the step of a stage update that writes the workflow row sets the
\* status of stage k to the given status and leaves the statuses of the two
\* other stages as they were; no other step of a stage update changes a
\* workflow row.
C27_OtherStagesKept ==
    [][\A a \in AdminSlots :
          (areq[a].kind = "stage" /\ areq'[a] # areq[a])
             => IF areq[a].pc = "su_update" /\ areq'[a].pc \in {"su_status", "su_log"}
                  THEN \A c \in Complaints, j \in StageIds :
                          StepStatus(complaint_workflow'[c], j) =
                             IF c = areq[a].cid /\ j = areq[a].stageId
                               THEN areq[a].status
                               ELSE StepStatus(complaint_workflow[c], j)
                  ELSE UNCHANGED complaint_workflow]_vars

\* Stage 2 was updated while stage 1 held a status of its own: stage 1
\* still holds it.
C27_SecondStageUpdated ==
    /\ areq["a1"].kind = "stage"
    /\ areq["a1"].pc = "su_log"
    /\ areq["a1"].stageId = 2
    /\ complaint_workflow["c1"] = WorkflowRow("completed", "cancelled", "pending")
    /\ areq["a1"].workflow = WorkflowRow("completed", "in_progress", "pending")

(***************************************************************************)
(* stage/next and the status override of two admins at the same time.      *)
(***************************************************************************)
NextRace ==
    \E a \in AdminSlots :
       \/ StartNextStage(a) \/ NextStageRead(a) \/ NextStageUpdate(a)
       \/ StartStatusOverride(a) \/ StatusOverrideUpdate(a)
       \/ StatusOverrideInsertUpdate(a)

SpecRace == InitAdmins /\ [][NextRace]_vars

\* C28: a step of stage/next changes complaints.status only from pending to
\* in_progress, changes no workflow row and no audit row, and answers 404
\* without a change when the complaint is missing.
C28_NextStageOnlyStartsProgress ==
    [][\A a \in AdminSlots :
          (areq[a].kind = "next" /\ areq[a].pc \in {"ns_complaint", "ns_update"}
             /\ areq'[a] # areq[a])
             => /\ UNCHANGED <<complaint_workflow, complaint_updates>>
                /\ \A c \in Complaints :
                      status'[c] # status[c]
                         => status[c] = "pending" /\ status'[c] = "in_progress"
                /\ (areq[a].pc = "ns_complaint" /\ areq[a].cid \notin complaints)
                      => /\ areq'[a].code = 404
                         /\ UNCHANGED status]_vars

\* C30: a details request that finds the complaint but no workflow row
\* inserts the row with three pending stages and is answered with success.
C30_DetailsCreatesWorkflow ==
    [][\A a \in AdminSlots :
          (areq[a].kind = "details" /\ areq[a].pc = "d_create" /\ areq'[a] # areq[a])
             => /\ complaint_workflow[areq[a].cid] = NoWorkflow
                /\ complaint_workflow'[areq[a].cid] = DefaultWorkflow
                /\ areq'[a].pc = "done"
                /\ areq'[a].code = 200]_vars

====
